---------------------------- MODULE Spec2Model ----------------------------
(***************************************************************************)
(* Wave Function Collapse core of wfc-visualizer: Random (mulberry32),     *)
(* Wave, Propagator, OverlappingModel and the tileset loader feeding       *)
(* SimpleTiledModel.                                                       *)
(*                                                                         *)
(* Numbers.  TLC integers are 32-bit signed, so a 32-bit word is kept as   *)
(* two 16-bit limbs <<low, high>> and the PRNG state, a JavaScript number  *)
(* that is never wrapped, as three limbs <<l0, l1, l2>>.  A float in [0,1) *)
(* returned by next() is kept as its numerator over 2^32 (a word).         *)
(* Weights are integers; logarithms are kept in fixed point (see Ln).      *)
(***************************************************************************)
EXTENDS Integers, Sequences, FiniteSets, TLC

(***************************************************************************)
(* Direction tables                                                        *)
(***************************************************************************)
DX == <<-1, 0, 1, 0>>
DY == <<0, 1, 0, -1>>
OPPOSITE == <<2, 3, 0, 1>>
Directions == 0..3

(***************************************************************************)
(* 32-bit arithmetic on limbs                                              *)
(***************************************************************************)
Limb == 2^16

RECURSIVE XorBits(_, _, _)
XorBits(a, b, n) ==
    IF n = 0 THEN 0
    ELSE ((a + b) % 2) + 2 * XorBits(a \div 2, b \div 2, n - 1)

RECURSIVE OrBits(_, _, _)
OrBits(a, b, n) ==
    IF n = 0 THEN 0
    ELSE (IF a % 2 = 1 \/ b % 2 = 1 THEN 1 ELSE 0)
         + 2 * OrBits(a \div 2, b \div 2, n - 1)

\* x ^ y on 32-bit words
Xor32(x, y) == <<XorBits(x[1], y[1], 16), XorBits(x[2], y[2], 16)>>

\* x | c for a constant c < 2^16
Or32(x, c) == <<OrBits(x[1], c, 16), x[2]>>

\* x >>> k for 0 < k < 16
Shr32(x, k) ==
    <<(x[1] \div 2^k) + (x[2] % 2^k) * 2^(16 - k), x[2] \div 2^k>>

\* (x + y) mod 2^32
Add32(x, y) ==
    LET lo == x[1] + y[1]
    IN  <<lo % Limb, (x[2] + y[2] + lo \div Limb) % Limb>>

\* (a * b) mod 2^16 for 16-bit a, b, without leaving 31 bits
MulMod16(a, b) == ((((a \div 256) * b) % 256) * 256 + (a % 256) * b) % Limb

\* the full 32-bit product of two 16-bit limbs, as a word
Mul16(a, b) ==
    LET x == (a % 256) * b
        y == (a \div 256) * b
        lo == (y % 256) * 256 + (x % Limb)
    IN  <<lo % Limb, (y \div 256) + (x \div Limb) + (lo \div Limb)>>

\* Math.imul(x, y)
Imul(x, y) ==
    LET p == Mul16(x[1], y[1])
    IN  <<p[1], (p[2] + MulMod16(x[1], y[2]) + MulMod16(x[2], y[1])) % Limb>>

(***************************************************************************)
(* Random (mulberry32)                                                     *)
(***************************************************************************)
\* constructor: this.state = seed >>> 0
RandomInit(seed) == <<seed % Limb, (seed \div Limb) % Limb, 0>>

\* this.state += 0x6d2b79f5 : a number addition, not wrapped to 32 bits
RandomAdvance(s) ==
    LET a0 == s[1] + 31221
        a1 == s[2] + 27947 + a0 \div Limb
    IN  <<a0 % Limb, a1 % Limb, s[3] + a1 \div Limb>>

\* the value next() would return if the final >>> 0 were left out: the
\* signed 32-bit result of the last xor
RandomOutputSigned(s) ==
    LET t0 == <<s[1], s[2]>>
        t1 == Imul(Xor32(t0, Shr32(t0, 15)), Or32(t0, 1))
        t2 == Xor32(t1, Add32(t1, Imul(Xor32(t1, Shr32(t1, 7)), Or32(t1, 61))))
        u == Xor32(t2, Shr32(t2, 14))
    IN  <<u[1], IF u[2] >= Limb \div 2 THEN u[2] - Limb ELSE u[2]>>

\* the numerator over 2^32 of the float returned by next(), from the new state
RandomOutput(s) ==
    LET t0 == <<s[1], s[2]>>
        t1 == Imul(Xor32(t0, Shr32(t0, 15)), Or32(t0, 1))
        t2 == Xor32(t1, Add32(t1, Imul(Xor32(t1, Shr32(t1, 7)), Or32(t1, 61))))
    IN  Xor32(t2, Shr32(t2, 14))

\* next(): the new state and the value drawn
RandomNext(s) ==
    LET s2 == RandomAdvance(s)
    IN  [state |-> s2, value |-> RandomOutput(s2)]

\* nextInt(max) = Math.floor(this.next() * max), for max < 2^15 (the
\* product is then exact in a double)
RandomNextInt(s, max) ==
    LET draw == RandomNext(s)
    IN  [state |-> draw.state, drawn |-> draw.value,
         value |-> (draw.value[2] * max + (draw.value[1] * max) \div Limb)
                   \div Limb]

(***************************************************************************)
(* Arrays are 0-based in the source and 1-based sequences here.            *)
(***************************************************************************)
At(arr, k) == arr[k + 1]

RECURSIVE SeqSum(_)
SeqSum(s) == IF s = <<>> THEN 0 ELSE Head(s) + SeqSum(Tail(s))

(***************************************************************************)
(* OverlappingModel: colour quantization and pattern extraction            *)
(***************************************************************************)
\* extractColors.  The loop gives a pixel whose colour is not in colorMap
\* the index colors.length and pushes the colour: the index of a colour is
\* the number of distinct colours first seen before it, and colors lists
\* the colours in that order.  sample is a Uint8Array: the store keeps the
\* index modulo 256
ExtractColors(pixels) ==
    LET firstSeen == {i \in DOMAIN pixels :
                        \A h \in 1..(i - 1) : pixels[h] # pixels[i]}
        Rank(h) == Cardinality({g \in firstSeen : g < h})
    IN  [sample |-> [i \in DOMAIN pixels |->
                        Rank(CHOOSE h \in firstSeen : pixels[h] = pixels[i])
                            % 256],
         colors |-> [j \in 1..Cardinality(firstSeen) |->
                        pixels[CHOOSE h \in firstSeen : Rank(h) = j - 1]]]

PatternFromSample(sample, sampleWidth, sampleHeight, N, x, y) ==
    [k \in 1..(N * N) |->
        LET dx == (k - 1) % N
            dy == (k - 1) \div N
            sx == (x + dx) % sampleWidth
            sy == (y + dy) % sampleHeight
        IN  At(sample, sx + sy * sampleWidth)]

\* rotate 90 degrees clockwise
Rotate(p, N) ==
    [k \in 1..(N * N) |->
        LET x == (k - 1) % N
            y == (k - 1) \div N
        IN  At(p, N - 1 - y + x * N)]

\* reflect horizontally
Reflect(p, N) ==
    [k \in 1..(N * N) |->
        LET x == (k - 1) % N
            y == (k - 1) \div N
        IN  At(p, N - 1 - x + y * N)]

\* a hash that adds the colour indices without the powers of C
HashWithoutPowers(p, C) == SeqSum(p)

\* the polynomial hash in base C, last element least significant
RECURSIVE HashFrom(_, _, _, _, _)
HashFrom(p, i, C, result, power) ==
    IF i < 0 THEN result
    ELSE HashFrom(p, i - 1, C, result + At(p, i) * power, power * C)

Hash(p, C) == HashFrom(p, Len(p) - 1, C, 0, 1)

\* the 8 symmetry variants ps[0..7] of the patch at (x, y)
Variants(sample, sampleWidth, sampleHeight, N, x, y) ==
    LET p0 == PatternFromSample(sample, sampleWidth, sampleHeight, N, x, y)
        p1 == Reflect(p0, N)
        p2 == Rotate(p0, N)
        p3 == Reflect(p2, N)
        p4 == Rotate(p2, N)
        p5 == Reflect(p4, N)
        p6 == Rotate(p4, N)
        p7 == Reflect(p6, N)
    IN  <<p0, p1, p2, p3, p4, p5, p6, p7>>

\* the list a loop over ascending indices pushes: the members of S in order
Ascending(S) ==
    [k \in 1..Cardinality(S) |->
        CHOOSE x \in S : Cardinality({y \in S : y < x}) = k - 1]

\* the patches the y, x, k loops visit, in loop order: iteration n (from 1)
\* is variant (n - 1) % symmetry of origin (n - 1) \div symmetry, and origin
\* o is (o % xmax, o \div xmax)
Visited(sample, sampleWidth, sampleHeight, xmax, ymax, symmetry, N) ==
    LET count == IF xmax <= 0 \/ ymax <= 0 THEN 0 ELSE xmax * ymax * symmetry
    IN  [n \in 1..count |->
            LET o == (n - 1) \div symmetry
                ps == Variants(sample, sampleWidth, sampleHeight, N,
                               o % xmax, o \div xmax)
            IN  At(ps, (n - 1) % symmetry)]

\* the loops' result: a patch whose hash is new is appended with weight 1,
\* a patch whose hash was seen increments the weight of its first occurrence
ExtractPatterns(sample, sampleWidth, sampleHeight, periodicInput, symmetry, N, C) ==
    LET xmax == IF periodicInput THEN sampleWidth ELSE sampleWidth - N + 1
        ymax == IF periodicInput THEN sampleHeight ELSE sampleHeight - N + 1
        ps == Visited(sample, sampleWidth, sampleHeight, xmax, ymax,
                      symmetry, N)
        hashOf == [n \in DOMAIN ps |-> Hash(ps[n], C)]
        isNew == {n \in DOMAIN ps : \A m \in 1..(n - 1) : hashOf[m] # hashOf[n]}
        first == Ascending(isNew)
    IN  [patterns |-> [i \in DOMAIN first |-> ps[first[i]]],
         weights |-> [i \in DOMAIN first |->
                        Cardinality({n \in DOMAIN ps :
                                        hashOf[n] = hashOf[first[i]]})],
         hashes |-> [i \in DOMAIN first |-> hashOf[first[i]]]]

(***************************************************************************)
(* OverlappingModel.buildPropagator                                        *)
(***************************************************************************)
\* the comparison with the offset left out of the index into p2
AgreesUnshifted(p1, p2, dx, dy, N) ==
    LET xmin == IF dx < 0 THEN 0 ELSE dx
        xmax == IF dx < 0 THEN dx + N ELSE N
        ymin == IF dy < 0 THEN 0 ELSE dy
        ymax == IF dy < 0 THEN dy + N ELSE N
    IN  \A y \in ymin..(ymax - 1) : \A x \in xmin..(xmax - 1) :
            At(p1, x + N * y) = At(p2, x + N * y)

\* do p1 and p2 agree where p2 is p1 shifted by (dx, dy)
Agrees(p1, p2, dx, dy, N) ==
    LET xmin == IF dx < 0 THEN 0 ELSE dx
        xmax == IF dx < 0 THEN dx + N ELSE N
        ymin == IF dy < 0 THEN 0 ELSE dy
        ymax == IF dy < 0 THEN dy + N ELSE N
    IN  \A y \in ymin..(ymax - 1) : \A x \in xmin..(xmax - 1) :
            At(p1, x + N * y) = At(p2, x - dx + N * (y - dy))

\* data[t][d] = the patterns that may lie in direction d from t
BuildPropagator(patterns, N) ==
    LET T == Len(patterns)
    IN  [t \in 0..(T - 1) |->
          [d \in Directions |->
            Ascending({t2 \in 0..(T - 1) :
                Agrees(At(patterns, t), At(patterns, t2),
                       DX[d + 1], DY[d + 1], N)})]]

(***************************************************************************)
(* Wave.  Math.log on the integers 1..80 in fixed point: 10^4 * ln n,      *)
(* rounded.  Infinity is a number above every finite value of the model;   *)
(* Math.log(0) is -Infinity.                                               *)
(***************************************************************************)
Infinity == 2^30

LnTable ==
    <<0, 6931, 10986, 13863, 16094, 17918, 19459, 20794, 21972, 23026,
      23979, 24849, 25649, 26391, 27081, 27726, 28332, 28904, 29444, 29957,
      30445, 30910, 31355, 31781, 32189, 32581, 32958, 33322, 33673, 34012,
      34340, 34657, 34965, 35264, 35553, 35835, 36109, 36376, 36636, 36889,
      37136, 37377, 37612, 37842, 38067, 38286, 38501, 38712, 38918, 39120,
      39318, 39512, 39703, 39890, 40073, 40254, 40431, 40604, 40775, 40943,
      41109, 41271, 41431, 41589, 41744, 41897, 42047, 42195, 42341, 42485,
      42627, 42767, 42905, 43041, 43175, 43307, 43438, 43567, 43694, 43820>>

Ln(n) == IF n = 0 THEN -Infinity ELSE LnTable[n]

Abs(v) == IF v < 0 THEN -v ELSE v

\* p > 0 ? p * Math.log(p) : 0, with p = w / sumOfWeights
PLogP(w, sumOfWeights) ==
    IF w > 0 /\ sumOfWeights > 0
    THEN (w * (Ln(w) - Ln(sumOfWeights))) \div sumOfWeights
    ELSE 0

\* the loop of the constructor that finds the least non-zero |plogp|
RECURSIVE MinPlogpFrom(_, _, _)
MinPlogpFrom(plogp, i, minPlogp) ==
    IF i >= Len(plogp) THEN minPlogp
    ELSE LET a == Abs(At(plogp, i))
         IN  MinPlogpFrom(plogp, i + 1,
                IF a > 0 /\ a < minPlogp THEN a ELSE minPlogp)

\* the memoized scalars of an all-possible wave (constructor and clear)
StartingMemo(size, T, sumOfWeights, sumOfPlogp, startingEntropy) ==
    [plogpSum |-> [i \in 0..(size - 1) |-> sumOfPlogp],
     sum |-> [i \in 0..(size - 1) |-> sumOfWeights],
     logSum |-> [i \in 0..(size - 1) |-> Ln(sumOfWeights)],
     patternCount |-> [i \in 0..(size - 1) |-> T],
     entropy |-> [i \in 0..(size - 1) |-> startingEntropy]]

\* new Wave(width, height, weights)
WaveNew(width, height, weights) ==
    LET size == width * height
        T == Len(weights)
        sumOfWeights == SeqSum(weights)
        plogp == [i \in 1..T |-> PLogP(weights[i], sumOfWeights)]
        sumOfPlogp == SeqSum(plogp)
        minPlogp == MinPlogpFrom(plogp, 0, Infinity)
        startingEntropy ==
            IF sumOfWeights = 0 THEN -Infinity
            ELSE Ln(sumOfWeights) - sumOfPlogp
    IN  [width |-> width, height |-> height, size |-> size,
         patternCount |-> T, weights |-> weights, plogp |-> plogp,
         minAbsHalfPlogp |->
            IF minPlogp = Infinity THEN Infinity ELSE minPlogp \div 2,
         startingEntropy |-> startingEntropy,
         data |-> [k \in 0..(size * T - 1) |-> 1],
         memo |-> StartingMemo(size, T, sumOfWeights, sumOfPlogp,
                               startingEntropy)]

\* get(cellIndex, pattern): a read outside the array is undefined, not 1
WaveGet(w, cellIndex, pattern) ==
    LET dataIndex == cellIndex * w.patternCount + pattern
    IN  dataIndex \in DOMAIN w.data /\ w.data[dataIndex] = 1

\* getPossiblePatterns(cellIndex), in index order
WavePossible(w, cellIndex) ==
    Ascending({p \in 0..(w.patternCount - 1) :
                  w.data[cellIndex * w.patternCount + p] = 1})

\* remove() with the update of sum[cellIndex] left out
RemoveUpdateKeepingSum(w, cellIndex, pattern) ==
    LET dataIndex == cellIndex * w.patternCount + pattern
        plogpSum == w.memo.plogpSum[cellIndex] - At(w.plogp, pattern)
        sum == w.memo.sum[cellIndex]
    IN  [w EXCEPT
          !.data[dataIndex] = 0,
          !.memo.plogpSum[cellIndex] = plogpSum,
          !.memo.patternCount[cellIndex] = @ - 1,
          !.memo.logSum[cellIndex] = IF sum > 0 THEN Ln(sum) ELSE @,
          !.memo.entropy[cellIndex] =
              IF sum > 0 THEN Ln(sum) - (plogpSum \div sum) ELSE 0]

\* the state remove(cellIndex, pattern) leaves when the bit was set
RemoveUpdate(w, cellIndex, pattern) ==
    LET dataIndex == cellIndex * w.patternCount + pattern
        plogpSum == w.memo.plogpSum[cellIndex] - At(w.plogp, pattern)
        sum == w.memo.sum[cellIndex] - At(w.weights, pattern)
    IN  [w EXCEPT
          !.data[dataIndex] = 0,
          !.memo.plogpSum[cellIndex] = plogpSum,
          !.memo.sum[cellIndex] = sum,
          !.memo.patternCount[cellIndex] = @ - 1,
          !.memo.logSum[cellIndex] = IF sum > 0 THEN Ln(sum) ELSE @,
          !.memo.entropy[cellIndex] =
              IF sum > 0 THEN Ln(sum) - (plogpSum \div sum) ELSE 0]

\* remove() without the early return on a bit that is already clear
WaveRemoveUnguarded(w, cellIndex, pattern) ==
    [wave |-> RemoveUpdate(w, cellIndex, pattern), ret |-> TRUE]

\* remove(cellIndex, pattern): the wave after the call and the value returned
WaveRemove(w, cellIndex, pattern) ==
    IF w.data[cellIndex * w.patternCount + pattern] = 0
    THEN [wave |-> w, ret |-> FALSE]
    ELSE [wave |-> RemoveUpdate(w, cellIndex, pattern), ret |-> TRUE]

\* is cumulative >= target, where target = (value / 2^32) * sum
ReachesTarget(cumulative, value, sum) ==
    LET hi == value[2] * sum
        lo == value[1] * sum
        whole == hi + lo \div Limb
    IN  \/ cumulative * Limb > whole
        \/ cumulative * Limb = whole /\ lo % Limb = 0

\* the weighted scan of collapse with the weights of removed patterns
\* added to the running sum as well
RECURSIVE SelectFromCountingRemoved(_, _, _, _, _)
SelectFromCountingRemoved(w, cellIndex, value, p, cumulative) ==
    IF p >= w.patternCount THEN -1
    ELSE LET c2 == cumulative + At(w.weights, p)
         IN  IF w.data[cellIndex * w.patternCount + p] = 1
                /\ ReachesTarget(c2, value, w.memo.sum[cellIndex])
             THEN p
             ELSE SelectFromCountingRemoved(w, cellIndex, value, p + 1, c2)

\* the weighted scan of collapse: the first possible p whose running
\* weight reaches the target, or -1
RECURSIVE SelectFrom(_, _, _, _, _)
SelectFrom(w, cellIndex, value, p, cumulative) ==
    IF p >= w.patternCount THEN -1
    ELSE IF w.data[cellIndex * w.patternCount + p] = 1
         THEN LET c2 == cumulative + At(w.weights, p)
              IN  IF ReachesTarget(c2, value, w.memo.sum[cellIndex])
                  THEN p
                  ELSE SelectFrom(w, cellIndex, value, p + 1, c2)
         ELSE SelectFrom(w, cellIndex, value, p + 1, cumulative)

\* the last possible pattern at or below p, or -1
RECURSIVE LastPossible(_, _, _)
LastPossible(w, cellIndex, p) ==
    IF p < 0 THEN -1
    ELSE IF w.data[cellIndex * w.patternCount + p] = 1 THEN p
         ELSE LastPossible(w, cellIndex, p - 1)

\* the first possible pattern at or above p, or -1
RECURSIVE FirstPossible(_, _, _)
FirstPossible(w, cellIndex, p) ==
    IF p >= w.patternCount THEN -1
    ELSE IF w.data[cellIndex * w.patternCount + p] = 1 THEN p
         ELSE FirstPossible(w, cellIndex, p + 1)

\* the closing loop of collapse: remove every possible pattern but selected
RECURSIVE RemoveOthers(_, _, _, _)
RemoveOthers(w, cellIndex, selected, p) ==
    IF p >= w.patternCount THEN w
    ELSE RemoveOthers(
            IF p # selected /\ w.data[cellIndex * w.patternCount + p] = 1
            THEN WaveRemove(w, cellIndex, p).wave ELSE w,
            cellIndex, selected, p + 1)

\* collapse(cellIndex, rng): the wave, the PRNG state and the value returned
WaveCollapse(w, cellIndex, rng) ==
    LET remaining == w.memo.patternCount[cellIndex]
        draw == RandomNext(rng)
        scanned == SelectFrom(w, cellIndex, draw.value, 0, 0)
        selected == IF scanned = -1
                    THEN LastPossible(w, cellIndex, w.patternCount - 1)
                    ELSE scanned
    IN  IF remaining = 0 THEN [wave |-> w, rng |-> rng, ret |-> -1]
        ELSE IF remaining = 1
        THEN [wave |-> w, rng |-> rng, ret |-> FirstPossible(w, cellIndex, 0)]
        ELSE [wave |-> RemoveOthers(w, cellIndex, selected, 0),
              rng |-> draw.state, ret |-> selected]

\* entropy <= minEntropy, where minEntropy = min.e + (min.value / 2^32) * m
\* and minEntropy is Infinity while nothing has been kept (argmin = -1).
\* When minAbsHalfPlogp is Infinity (no pattern has a non-zero plogp) the
\* noise is Infinity or NaN, entropy + noise < minEntropy is false and no
\* cell is ever kept, though a number is drawn for each.
NotAbove(entropy, min, m) ==
    \/ entropy <= min.e
    \/ min.value[2] * m + (min.value[1] * m) \div Limb
          >= (entropy - min.e) * Limb

\* entropy + (value / 2^32) * m < minEntropy
Below(entropy, value, min, m) ==
    LET X == entropy - min.e
        A == (min.value[2] - value[2]) * m
        B == (min.value[1] - value[1]) * m
    IN  /\ X < m
        /\ \/ X <= -m
           \/ X * Limb - A < -((-B) \div Limb)

\* the scan of getMinEntropyCell with cells of count 0 skipped like collapsed
\* cells instead of reported
RECURSIVE MinEntropyFromSkippingEmpty(_, _, _, _, _)
MinEntropyFromSkippingEmpty(w, i, rng, min, argmin) ==
    IF i >= w.size THEN [cell |-> argmin, rng |-> rng]
    ELSE LET count == w.memo.patternCount[i]
             entropy == w.memo.entropy[i]
             draw == RandomNext(rng)
         IN  IF count <= 1
             THEN MinEntropyFromSkippingEmpty(w, i + 1, rng, min, argmin)
             ELSE IF w.minAbsHalfPlogp = Infinity
             THEN MinEntropyFromSkippingEmpty(w, i + 1, draw.state, min, argmin)
             ELSE IF argmin = -1
             THEN MinEntropyFromSkippingEmpty(w, i + 1, draw.state,
                                 [e |-> entropy, value |-> draw.value], i)
             ELSE IF NotAbove(entropy, min, w.minAbsHalfPlogp)
             THEN IF Below(entropy, draw.value, min, w.minAbsHalfPlogp)
                  THEN MinEntropyFromSkippingEmpty(w, i + 1, draw.state,
                                 [e |-> entropy, value |-> draw.value], i)
                  ELSE MinEntropyFromSkippingEmpty(w, i + 1, draw.state,
                                                   min, argmin)
             ELSE MinEntropyFromSkippingEmpty(w, i + 1, rng, min, argmin)

\* the scan of getMinEntropyCell from cell i on
RECURSIVE MinEntropyFrom(_, _, _, _, _)
MinEntropyFrom(w, i, rng, min, argmin) ==
    IF i >= w.size THEN [cell |-> argmin, rng |-> rng]
    ELSE LET count == w.memo.patternCount[i]
             entropy == w.memo.entropy[i]
             draw == RandomNext(rng)
         IN  IF count = 1 THEN MinEntropyFrom(w, i + 1, rng, min, argmin)
             ELSE IF count = 0 THEN [cell |-> -2, rng |-> rng]
             ELSE IF w.minAbsHalfPlogp = Infinity
             THEN MinEntropyFrom(w, i + 1, draw.state, min, argmin)
             ELSE IF argmin = -1
             THEN MinEntropyFrom(w, i + 1, draw.state,
                                 [e |-> entropy, value |-> draw.value], i)
             ELSE IF NotAbove(entropy, min, w.minAbsHalfPlogp)
             THEN IF Below(entropy, draw.value, min, w.minAbsHalfPlogp)
                  THEN MinEntropyFrom(w, i + 1, draw.state,
                                 [e |-> entropy, value |-> draw.value], i)
                  ELSE MinEntropyFrom(w, i + 1, draw.state, min, argmin)
             ELSE MinEntropyFrom(w, i + 1, rng, min, argmin)

\* getMinEntropyCell(rng): the cell (or -1, -2) and the PRNG state
GetMinEntropyCell(w, rng) ==
    MinEntropyFrom(w, 0, rng, [e |-> 0, value |-> <<0, 0>>], -1)

\* clear()
WaveClear(w) ==
    [w EXCEPT
      !.data = [k \in DOMAIN w.data |-> 1],
      !.memo = StartingMemo(w.size, w.patternCount, SeqSum(w.weights),
                            SeqSum(w.plogp), w.startingEntropy)]

(***************************************************************************)
(* Propagator                                                              *)
(***************************************************************************)
\* hasNeighbor of initCompatible: cell i has a neighbour in direction d
HasNeighbor(width, height, periodic, i, direction) ==
    LET nx == (i % width) + DX[direction + 1]
        ny == (i \div width) + DY[direction + 1]
    IN  IF periodic THEN TRUE
        ELSE nx >= 0 /\ nx < width /\ ny >= 0 /\ ny < height

\* the neighbour index propagate() computes (wrapping when periodic)
NeighborIndex(width, height, i, direction) ==
    LET x2 == ((i % width) + DX[direction + 1] + width) % width
        y2 == ((i \div width) + DY[direction + 1] + height) % height
    IN  x2 + y2 * width

\* initCompatible(): writes the entries whose neighbour exists, keeps the rest
InitCompatible(pr, old) ==
    [idx \in 0..(pr.width * pr.height * pr.patternCount * 4 - 1) |->
        LET i == idx \div (pr.patternCount * 4)
            pattern == (idx \div 4) % pr.patternCount
            direction == idx % 4
        IN  IF HasNeighbor(pr.width, pr.height, pr.periodic, i, direction)
            THEN Len(pr.propagatorData[pattern][direction])
            ELSE old[idx]]

\* new Propagator(width, height, patternCount, periodic, propagatorData)
PropagatorNew(width, height, patternCount, periodic, propagatorData) ==
    LET pr == [width |-> width, height |-> height,
               patternCount |-> patternCount, periodic |-> periodic,
               propagatorData |-> propagatorData,
               compatible |-> <<>>, stack |-> <<>>]
        zeros == [idx \in 0..(width * height * patternCount * 4 - 1) |-> 0]
    IN  [pr EXCEPT !.compatible = InitCompatible(pr, zeros)]

\* reset() without the stack being emptied
PropagatorResetKeepingStack(pr) ==
    [pr EXCEPT !.compatible = InitCompatible(pr, pr.compatible)]

\* reset()
PropagatorReset(pr) ==
    [pr EXCEPT !.compatible = InitCompatible(pr, pr.compatible),
               !.stack = <<>>]

\* addToPropagate(cellIndex, pattern)
AddToPropagate(pr, cellIndex, pattern) ==
    [pr EXCEPT !.stack = Append(@, <<cellIndex, pattern>>)]

\* the decision without the test of wave.get(neighborIndex, compatPattern)
MustRemoveWithoutGet(count, w, neighborIndex, compatPattern) == count = 0

\* the decision taken when a count has just been decremented
MustRemove(count, w, neighborIndex, compatPattern) ==
    count = 0 /\ WaveGet(w, neighborIndex, compatPattern)

\* the loop over compatPatterns[k..] decrementing the count of the direction
\* walked instead of the opposite one
RECURSIVE PropagateCompatSameDirection(_, _, _, _, _, _)
PropagateCompatSameDirection(w, pr, neighborIndex, oppositeDir, compatPatterns, k) ==
    IF k >= Len(compatPatterns) THEN [wave |-> w, prop |-> pr, ok |-> TRUE]
    ELSE LET compatPattern == At(compatPatterns, k)
             compatIdx == neighborIndex * pr.patternCount * 4
                          + compatPattern * 4 + OPPOSITE[oppositeDir + 1]
             count == pr.compatible[compatIdx] - 1
             pr2 == [pr EXCEPT !.compatible[compatIdx] = count]
         IN  IF MustRemove(count, w, neighborIndex, compatPattern)
             THEN LET w2 == WaveRemove(w, neighborIndex, compatPattern).wave
                      pr3 == AddToPropagate(pr2, neighborIndex, compatPattern)
                  IN  IF w2.memo.patternCount[neighborIndex] = 0
                      THEN [wave |-> w2, prop |-> pr3, ok |-> FALSE]
                      ELSE PropagateCompatSameDirection(w2, pr3,
                               neighborIndex, oppositeDir, compatPatterns,
                               k + 1)
             ELSE PropagateCompatSameDirection(w, pr2, neighborIndex,
                      oppositeDir, compatPatterns, k + 1)

\* the loop over compatPatterns[k..] for one popped pair and one direction
RECURSIVE PropagateCompat(_, _, _, _, _, _)
PropagateCompat(w, pr, neighborIndex, oppositeDir, compatPatterns, k) ==
    IF k >= Len(compatPatterns) THEN [wave |-> w, prop |-> pr, ok |-> TRUE]
    ELSE LET compatPattern == At(compatPatterns, k)
             compatIdx == neighborIndex * pr.patternCount * 4
                          + compatPattern * 4 + oppositeDir
             count == pr.compatible[compatIdx] - 1
             pr2 == [pr EXCEPT !.compatible[compatIdx] = count]
         IN  IF MustRemove(count, w, neighborIndex, compatPattern)
             THEN LET w2 == WaveRemove(w, neighborIndex, compatPattern).wave
                      pr3 == AddToPropagate(pr2, neighborIndex, compatPattern)
                  IN  IF w2.memo.patternCount[neighborIndex] = 0
                      THEN [wave |-> w2, prop |-> pr3, ok |-> FALSE]
                      ELSE PropagateCompat(w2, pr3, neighborIndex,
                                           oppositeDir, compatPatterns, k + 1)
             ELSE PropagateCompat(w, pr2, neighborIndex, oppositeDir,
                                  compatPatterns, k + 1)

\* the loop over directions for one popped pair
RECURSIVE PropagateDirs(_, _, _, _, _)
PropagateDirs(w, pr, cellIndex, pattern, direction) ==
    IF direction >= 4 THEN [wave |-> w, prop |-> pr, ok |-> TRUE]
    ELSE IF ~HasNeighbor(pr.width, pr.height, pr.periodic, cellIndex,
                         direction)
    THEN PropagateDirs(w, pr, cellIndex, pattern, direction + 1)
    ELSE LET r == PropagateCompat(w, pr,
                    NeighborIndex(pr.width, pr.height, cellIndex, direction),
                    OPPOSITE[direction + 1],
                    pr.propagatorData[pattern][direction], 0)
         IN  IF r.ok
             THEN PropagateDirs(r.wave, r.prop, cellIndex, pattern,
                                direction + 1)
             ELSE r

\* propagate(wave) with the loop run for one popped pair only
PropagateOnePair(w, pr) ==
    IF Len(pr.stack) = 0 THEN [wave |-> w, prop |-> pr, ok |-> TRUE]
    ELSE PropagateDirs(w, [pr EXCEPT !.stack = SubSeq(@, 1, Len(@) - 1)],
                       pr.stack[Len(pr.stack)][1],
                       pr.stack[Len(pr.stack)][2], 0)

\* propagate(wave): pops until the stack is empty or a cell is emptied
RECURSIVE Propagate(_, _)
Propagate(w, pr) ==
    IF Len(pr.stack) = 0 THEN [wave |-> w, prop |-> pr, ok |-> TRUE]
    ELSE LET top == pr.stack[Len(pr.stack)]
             popped == [pr EXCEPT !.stack = SubSeq(@, 1, Len(@) - 1)]
             r == PropagateDirs(w, popped, top[1], top[2], 0)
         IN  IF r.ok THEN Propagate(r.wave, r.prop) ELSE r

\* the pairs the loop of propagate(wave) pops, in the order it pops them
RECURSIVE PoppedPairs(_, _)
PoppedPairs(w, pr) ==
    IF Len(pr.stack) = 0 THEN <<>>
    ELSE LET top == pr.stack[Len(pr.stack)]
             popped == [pr EXCEPT !.stack = SubSeq(@, 1, Len(@) - 1)]
             r == PropagateDirs(w, popped, top[1], top[2], 0)
         IN  IF r.ok THEN <<top>> \o PoppedPairs(r.wave, r.prop)
             ELSE <<top>>

\* propagateStep(wave) reporting done after its first pop whatever is left
PropagateStepDoneAfterOnePop(w, pr) ==
    IF Len(pr.stack) = 0
    THEN [wave |-> w, prop |-> pr, done |-> TRUE, contradiction |-> FALSE]
    ELSE LET r == PropagateDirs(w, [pr EXCEPT !.stack = SubSeq(@, 1, Len(@) - 1)],
                                pr.stack[Len(pr.stack)][1],
                                pr.stack[Len(pr.stack)][2], 0)
         IN  [wave |-> r.wave, prop |-> r.prop, done |-> r.ok,
              contradiction |-> ~r.ok]

\* propagateStep(wave): one pair popped and walked over its four directions;
\* done tells whether the stack is empty afterwards
PropagateStep(w, pr) ==
    IF Len(pr.stack) = 0
    THEN [wave |-> w, prop |-> pr, done |-> TRUE, contradiction |-> FALSE]
    ELSE LET r == PropagateDirs(w, [pr EXCEPT !.stack = SubSeq(@, 1, Len(@) - 1)],
                                pr.stack[Len(pr.stack)][1],
                                pr.stack[Len(pr.stack)][2], 0)
         IN  IF r.ok
             THEN [wave |-> r.wave, prop |-> r.prop,
                   done |-> Len(r.prop.stack) = 0, contradiction |-> FALSE]
             ELSE [wave |-> r.wave, prop |-> r.prop, done |-> FALSE,
                   contradiction |-> TRUE]

(***************************************************************************)
(* Cell selection by the scanline and MRV heuristics                       *)
(***************************************************************************)
\* the first cell at or after i with more than one pattern left, or -1
RECURSIVE FirstUncollapsed(_, _)
FirstUncollapsed(w, i) ==
    IF i >= w.size THEN -1
    ELSE IF w.memo.patternCount[i] > 1 THEN i
         ELSE FirstUncollapsed(w, i + 1)

\* getScanlineCell(cursor): -2 on contradiction, else the first uncollapsed
\* cell at index >= cursor with the cursor moved past it, else -1
GetScanlineCell(w, cursor) ==
    LET found == FirstUncollapsed(w, cursor)
    IN  IF \E i \in 0..(w.size - 1) : w.memo.patternCount[i] = 0
        THEN [cell |-> -2, nextStart |-> cursor]
        ELSE IF found = -1 THEN [cell |-> -1, nextStart |-> w.size]
        ELSE [cell |-> found, nextStart |-> found + 1]

\* the scan of getMRVCell: least remaining count, ties broken by a draw
RECURSIVE MRVFrom(_, _, _, _, _)
MRVFrom(w, i, rng, min, argmin) ==
    IF i >= w.size THEN [cell |-> argmin, rng |-> rng]
    ELSE LET count == w.memo.patternCount[i]
             draw == RandomNext(rng)
         IN  IF count = 1 THEN MRVFrom(w, i + 1, rng, min, argmin)
             ELSE IF count = 0 THEN [cell |-> -2, rng |-> rng]
             ELSE IF argmin = -1 \/ count < min.e
                     \/ (count = min.e /\ Below(count, draw.value, min, 1))
             THEN MRVFrom(w, i + 1, draw.state,
                          [e |-> count, value |-> draw.value], i)
             ELSE IF count = min.e
             THEN MRVFrom(w, i + 1, draw.state, min, argmin)
             ELSE MRVFrom(w, i + 1, rng, min, argmin)

GetMRVCell(w, rng) ==
    MRVFrom(w, 0, rng, [e |-> 0, value |-> <<0, 0>>], -1)

(***************************************************************************)
(* OverlappingModel / SimpleTiledModel: ground, step, clear, getState      *)
(***************************************************************************)
\* what a propagate() call returned, as recorded in lastPropagate
Returned(ok) == IF ok THEN "true" ELSE "false"

\* one guarded removal of applyGroundConstraint
Ban(wp, cellIndex, t) ==
    IF WaveGet(wp.wave, cellIndex, t)
    THEN [wave |-> WaveRemove(wp.wave, cellIndex, t).wave,
          prop |-> AddToPropagate(wp.prop, cellIndex, t)]
    ELSE wp

\* bottom row of column x: ban every pattern t .. T-2
RECURSIVE BanBottom(_, _, _, _, _)
BanBottom(wp, x, t, width, height) ==
    IF t >= wp.wave.patternCount - 1 THEN wp
    ELSE BanBottom(Ban(wp, x + (height - 1) * width, t), x, t + 1,
                   width, height)

\* the other rows y .. H-2 of column x: ban the last pattern
RECURSIVE BanAbove(_, _, _, _, _)
BanAbove(wp, x, y, width, height) ==
    IF y >= height - 1 THEN wp
    ELSE BanAbove(Ban(wp, x + y * width, wp.wave.patternCount - 1), x, y + 1,
                  width, height)

RECURSIVE BanColumns(_, _, _, _)
BanColumns(wp, x, width, height) ==
    IF x >= width THEN wp
    ELSE BanColumns(BanAbove(BanBottom(wp, x, 0, width, height), x, 0,
                             width, height),
                    x + 1, width, height)

\* applyGroundConstraint(): the bans, then one propagate whose result is
\* dropped
ApplyGroundConstraint(w, pr) ==
    LET banned == BanColumns([wave |-> w, prop |-> pr], 0, w.width, w.height)
    IN  Propagate(banned.wave, banned.prop)

\* the selection with the cursor left where it was in the scanline branch
SelectCellKeepingCursor(m, w, rng) ==
    IF m.heuristic = "mrv"
    THEN LET r == GetMRVCell(w, rng)
         IN  [cell |-> r.cell, rng |-> r.rng, cursor |-> m.scanlineCursor]
    ELSE IF m.heuristic = "scanline"
    THEN LET r == GetScanlineCell(w, m.scanlineCursor)
         IN  [cell |-> r.cell, rng |-> rng, cursor |-> m.scanlineCursor]
    ELSE LET r == GetMinEntropyCell(w, rng)
         IN  [cell |-> r.cell, rng |-> r.rng, cursor |-> m.scanlineCursor]

\* the cell the configured heuristic selects
SelectCell(m, w, rng) ==
    IF m.heuristic = "mrv"
    THEN LET r == GetMRVCell(w, rng)
         IN  [cell |-> r.cell, rng |-> r.rng, cursor |-> m.scanlineCursor]
    ELSE IF m.heuristic = "scanline"
    THEN LET r == GetScanlineCell(w, m.scanlineCursor)
         IN  [cell |-> r.cell, rng |-> rng, cursor |-> r.nextStart]
    ELSE LET r == GetMinEntropyCell(w, rng)
         IN  [cell |-> r.cell, rng |-> r.rng, cursor |-> m.scanlineCursor]

\* the loop pushing every pattern that was possible but not selected
RECURSIVE PushRemoved(_, _, _, _, _)
PushRemoved(pr, cellIndex, remainingPatterns, selectedPattern, k) ==
    IF k >= Len(remainingPatterns) THEN pr
    ELSE PushRemoved(
            IF At(remainingPatterns, k) # selectedPattern
            THEN AddToPropagate(pr, cellIndex, At(remainingPatterns, k))
            ELSE pr,
            cellIndex, remainingPatterns, selectedPattern, k + 1)

\* what a step() leaves and returns
StepOut(m, sel, w2, pr2, rng2, result, pattern, propagated) ==
    [model |-> [m EXCEPT !.scanlineCursor = sel.cursor], wave |-> w2,
     prop |-> pr2, rng |-> rng2, result |-> result, cell |-> sel.cell,
     pattern |-> pattern, propagated |-> propagated]

\* step() returning 'continue' whatever propagate() returned
StepPropagatedAlwaysContinue(m, sel, col, done) ==
    StepOut(m, sel, done.wave, done.prop, col.rng, "continue", col.ret,
            Returned(done.ok))

\* step() once propagate() has returned done
StepPropagated(m, sel, col, done) ==
    StepOut(m, sel, done.wave, done.prop, col.rng,
            IF done.ok THEN "continue" ELSE "failure", col.ret,
            Returned(done.ok))

\* step() once collapse() has returned col
StepCollapsed(m, pr, sel, remainingPatterns, col) ==
    IF col.ret = -1
    THEN StepOut(m, sel, col.wave, pr, col.rng, "failure", -1, "none")
    ELSE StepPropagated(m, sel, col,
            Propagate(col.wave,
                      PushRemoved(pr, sel.cell, remainingPatterns,
                                  col.ret, 0)))

\* step() once the heuristic has selected sel.cell
StepSelected(m, w, pr, sel) ==
    IF sel.cell = -1
    THEN StepOut(m, sel, w, pr, sel.rng, "success", -1, "none")
    ELSE IF sel.cell = -2
    THEN StepOut(m, sel, w, pr, sel.rng, "failure", -1, "none")
    ELSE StepCollapsed(m, pr, sel, WavePossible(w, sel.cell),
                       WaveCollapse(w, sel.cell, sel.rng))

\* step() run on the wave and the propagator as clear() would leave them
ModelStepOnClearedWave(m, w, pr, rng) ==
    StepSelected(m, WaveClear(w), PropagatorReset(pr),
                 SelectCell(m, WaveClear(w), rng))

\* step(): everything it changes, and what it returns
ModelStep(m, w, pr, rng) == StepSelected(m, w, pr, SelectCell(m, w, rng))

\* what run() leaves and returns: cur is the model as the latest step()
\* left it, stepCalls the number of step() calls made
RunOut(cur, ret, stepCalls) ==
    [model |-> cur.model, wave |-> cur.wave, prop |-> cur.prop,
     rng |-> cur.rng, ret |-> ret, stepCalls |-> stepCalls,
     last |-> cur.result]

\* has the loop of run() returned, cur being what the latest step() left
RunReturned(cur) == cur.result \in {"success", "failure"}

\* one more turn of the loop of run(), unless it has returned
RunTurn(cur) ==
    IF RunReturned(cur) THEN cur
    ELSE ModelStep(cur.model, cur.wave, cur.prop, cur.rng)

\* the loop of run(): the model after each of its first `turns` turns,
\* from the model start
RunTrace(start, turns) ==
    LET after[k \in 0..turns] ==
            IF k = 0 THEN start
            ELSE CHOOSE next \in {RunTurn(cur) : cur \in {after[k - 1]}} :
                    TRUE
    IN  [k \in 0..turns |-> after[k]]

\* what run() returns once its turns are known: false after a 'failure',
\* true after a 'success' or when the turns are used up
RunResult(trace, turns) ==
    RunOut(trace[turns], trace[turns].result # "failure",
           Cardinality({k \in 1..turns : ~RunReturned(trace[k - 1])}))

\* run(maxSteps) with the loop followed for `turns` turns
RunTurns(m, w, pr, rng, turns) ==
    CHOOSE out \in
        {RunResult(trace, turns) :
            trace \in {RunTrace([model |-> m, wave |-> w, prop |-> pr,
                                 rng |-> rng, result |-> "none"], turns)}} :
        TRUE

\* run(maxSteps).  A run without cap (maxSteps < 0) is followed for
\* W*H + 2 turns
ModelRun(m, w, pr, rng, maxSteps) ==
    RunTurns(m, w, pr, rng, IF maxSteps < 0 THEN w.size + 2 ELSE maxSteps)

\* clear() without the ground constraint being applied again
ModelClearWithoutGround(m, w, pr) ==
    [model |-> [m EXCEPT !.scanlineCursor = 0], wave |-> WaveClear(w),
     prop |-> PropagatorReset(pr), propagated |-> "none"]

\* the model after applyGroundConstraint() has run, g being what its
\* propagate() left
Grounded(m, g) ==
    [model |-> m, wave |-> g.wave, prop |-> g.prop,
     propagated |-> Returned(g.ok)]

\* clear()
ModelClear(m, w, pr) ==
    IF m.ground
    THEN Grounded([m EXCEPT !.scanlineCursor = 0],
                  ApplyGroundConstraint(WaveClear(w), PropagatorReset(pr)))
    ELSE [model |-> [m EXCEPT !.scanlineCursor = 0], wave |-> WaveClear(w),
          prop |-> PropagatorReset(pr), propagated |-> "none"]

\* getState() counting a cell with no pattern left as collapsed
GetStateCountingEmpty(w) ==
    LET collapsedCount ==
            Cardinality({i \in 0..(w.size - 1) : w.memo.patternCount[i] <= 1})
    IN  [totalCells |-> w.size,
         collapsedCount |-> collapsedCount,
         patternCount |-> w.patternCount,
         isComplete |-> collapsedCount = w.size,
         hasContradiction |->
            \E i \in 0..(w.size - 1) : w.memo.patternCount[i] = 0]

\* getState()
GetState(w) ==
    LET collapsedCount ==
            Cardinality({i \in 0..(w.size - 1) : w.memo.patternCount[i] = 1})
    IN  [totalCells |-> w.size,
         collapsedCount |-> collapsedCount,
         patternCount |-> w.patternCount,
         isComplete |-> collapsedCount = w.size,
         hasContradiction |->
            \E i \in 0..(w.size - 1) : w.memo.patternCount[i] = 0]

\* the constructed object: the model's fields and its Random
WithRandom(c, rng) ==
    [model |-> c.model, wave |-> c.wave, prop |-> c.prop, rng |-> rng,
     propagated |-> c.propagated]

\* the constructor from the Wave and Propagator on: the ground constraint
ModelBuilt(m, w, pr, options) ==
    WithRandom(IF options.ground
               THEN Grounded(m, ApplyGroundConstraint(w, pr))
               ELSE [model |-> m, wave |-> w, prop |-> pr,
                     propagated |-> "none"],
               RandomInit(options.seed))

\* the constructor from the extracted patterns on
ModelFromPatterns(ec, ep, options) ==
    ModelBuilt([kind |-> "overlapping", N |-> options.patternSize,
                patterns |-> ep.patterns, colors |-> ec.colors,
                width |-> options.width, height |-> options.height,
                periodic |-> options.periodic, ground |-> options.ground,
                heuristic |-> options.heuristic, scanlineCursor |-> 0,
                patternCount |-> Len(ep.patterns)],
               WaveNew(options.width, options.height, ep.weights),
               PropagatorNew(options.width, options.height, Len(ep.patterns),
                             options.periodic,
                             BuildPropagator(ep.patterns,
                                             options.patternSize)),
               options)

\* the constructor from the colour-indexed sample on
ModelFromColors(ec, inputWidth, inputHeight, options) ==
    ModelFromPatterns(ec,
        ExtractPatterns(ec.sample, inputWidth, inputHeight,
                        options.periodicInput, options.symmetry,
                        options.patternSize, Len(ec.colors)),
        options)

\* new OverlappingModel(inputPixels, inputWidth, inputHeight, options)
OverlappingModelNew(inputPixels, inputWidth, inputHeight, options) ==
    ModelFromColors(ExtractColors(inputPixels), inputWidth, inputHeight,
                    options)

(***************************************************************************)
(* loadTileset: symmetry classes, the action table, the propagator data    *)
(* A tileset is the content of data.xml: tiles <<name, symmetry, weight>>  *)
(* in document order, neighbor rules with the parts of their left and      *)
(* right attributes, and the subset's tile names (<<>>: no subset).        *)
(***************************************************************************)
\* getSymmetry(sym): cardinality, a (rotation), b (reflection)
GetSymmetry(sym) ==
    IF sym = "L"
    THEN [cardinality |-> 4,
          a |-> [i \in 0..7 |-> (i + 1) % 4],
          b |-> [i \in 0..7 |-> IF i % 2 = 0 THEN i + 1 ELSE i - 1]]
    ELSE IF sym = "T"
    THEN [cardinality |-> 4,
          a |-> [i \in 0..7 |-> (i + 1) % 4],
          b |-> [i \in 0..7 |-> IF i % 2 = 0 THEN i ELSE 4 - i]]
    ELSE IF sym = "I"
    THEN [cardinality |-> 2,
          a |-> [i \in 0..1 |-> 1 - i],
          b |-> [i \in 0..1 |-> i]]
    ELSE IF sym = "\\"
    THEN [cardinality |-> 2,
          a |-> [i \in 0..1 |-> 1 - i],
          b |-> [i \in 0..1 |-> 1 - i]]
    ELSE IF sym = "F"
    THEN [cardinality |-> 8,
          a |-> [i \in 0..7 |-> IF i < 4 THEN (i + 1) % 4
                                ELSE 4 + ((i - 1) % 4)],
          b |-> [i \in 0..7 |-> IF i < 4 THEN i + 4 ELSE i - 4]]
    ELSE [cardinality |-> 1,
          a |-> [i \in 0..0 |-> i],
          b |-> [i \in 0..0 |-> i]]

\* the tiles the loop does not skip, in document order
LoadedTiles(tileset) ==
    LET kept == {k \in DOMAIN tileset.tiles :
                    Len(tileset.subset) = 0
                    \/ tileset.tiles[k].name \in tileset.subset[1]}
        order == Ascending(kept)
    IN  [j \in DOMAIN order |-> tileset.tiles[order[j]]]

\* T = action.length when the loop reaches loaded tile j (from 1)
RECURSIVE TileBase(_, _)
TileBase(tiles, j) ==
    IF j <= 1 THEN 0
    ELSE TileBase(tiles, j - 1)
         + GetSymmetry(tiles[j - 1].symmetry).cardinality

\* the 8-entry map without the offset T of the tile's first variant
ActionMapWithoutBase(sym, t, T) ==
    LET a == GetSymmetry(sym).a
        b == GetSymmetry(sym).b
    IN  << t, a[t], a[a[t]], a[a[a[t]]],
           b[t], b[a[t]], b[a[a[t]]], b[a[a[a[t]]]] >>

\* the 8-entry map of variant t of a tile whose variants start at T
ActionMap(sym, t, T) ==
    LET a == GetSymmetry(sym).a
        b == GetSymmetry(sym).b
    IN  << t + T, a[t] + T, a[a[t]] + T, a[a[a[t]]] + T,
           b[t] + T, b[a[t]] + T, b[a[a[t]]] + T, b[a[a[a[t]]]] + T >>

\* action: one map per tile variant
ActionTable(tiles) ==
    LET total == TileBase(tiles, Len(tiles) + 1)
        TileOf(v) == CHOOSE j \in DOMAIN tiles :
                        /\ TileBase(tiles, j) <= v
                        /\ v < TileBase(tiles, j + 1)
    IN  [n \in 1..total |->
            LET j == TileOf(n - 1)
            IN  ActionMap(tiles[j].symmetry, n - 1 - TileBase(tiles, j),
                          TileBase(tiles, j))]

\* weightList: the tile's weight once per variant
WeightList(tiles) ==
    LET total == TileBase(tiles, Len(tiles) + 1)
    IN  [n \in 1..total |->
            LET j == CHOOSE k \in DOMAIN tiles :
                        /\ TileBase(tiles, k) <= n - 1
                        /\ n - 1 < TileBase(tiles, k + 1)
            IN  tiles[j].weight]

\* firstOccurrence.has(name), and .get(name): Map.set keeps the last value
HasOccurrence(tiles, name) == \E j \in DOMAIN tiles : tiles[j].name = name

FirstOccurrence(tiles, name) ==
    LET j == CHOOSE k \in DOMAIN tiles :
                /\ tiles[k].name = name
                /\ \A k2 \in DOMAIN tiles : tiles[k2].name = name => k2 <= k
    IN  TileBase(tiles, j)

\* the densePropagator entries [d][t1][t2] one neighbor element sets
NeighborEntries(action, tiles, xneighbor) ==
    LET leftParts == xneighbor.left
        rightParts == xneighbor.right
        L == At(At(action, FirstOccurrence(tiles, leftParts[1])),
                IF Len(leftParts) = 1 THEN 0 ELSE leftParts[2])
        D == At(At(action, L), 1)
        R == At(At(action, FirstOccurrence(tiles, rightParts[1])),
                IF Len(rightParts) = 1 THEN 0 ELSE rightParts[2])
        U == At(At(action, R), 1)
        A(t, s) == At(At(action, t), s)
    IN  IF ~HasOccurrence(tiles, leftParts[1])
           \/ ~HasOccurrence(tiles, rightParts[1])
        THEN {}
        ELSE { <<0, R, L>>, <<0, A(R, 6), A(L, 6)>>,
               <<0, A(L, 4), A(R, 4)>>, <<0, A(L, 2), A(R, 2)>>,
               <<1, U, D>>, <<1, A(D, 6), A(U, 6)>>,
               <<1, A(U, 4), A(D, 4)>>, <<1, A(D, 2), A(U, 2)>>}

\* densePropagator[d][t1][t2] with directions 2, 3 copied from directions
\* 0, 1 without the transposition
DensePropagatorCopied(action, tiles, neighbors, d, t1, t2) ==
    LET Set(e) == \E n \in DOMAIN neighbors :
                    e \in NeighborEntries(action, tiles, neighbors[n])
    IN  IF d < 2 THEN Set(<<d, t1, t2>>) ELSE Set(<<d - 2, t1, t2>>)

\* densePropagator[d][t1][t2]: directions 2, 3 transpose directions 0, 1
DensePropagator(action, tiles, neighbors, d, t1, t2) ==
    LET Set(e) == \E n \in DOMAIN neighbors :
                    e \in NeighborEntries(action, tiles, neighbors[n])
    IN  IF d < 2 THEN Set(<<d, t1, t2>>) ELSE Set(<<d - 2, t2, t1>>)

\* loadTileset(): weights and the sparse propagatorData
LoadTileset(tileset) ==
    LET tiles == LoadedTiles(tileset)
        action == ActionTable(tiles)
        totalTiles == Len(action)
    IN  [weights |-> WeightList(tiles),
         totalTiles |-> totalTiles,
         propagatorData |->
            [t \in 0..(totalTiles - 1) |->
                [d \in 0..3 |->
                    Ascending({t2 \in 0..(totalTiles - 1) :
                        DensePropagator(action, tiles, tileset.neighbors,
                                        d, t, t2)})]]]

\* new SimpleTiledModel(tiles, tilenames, tilesize, weights, propagatorData,
\* options)
SimpleTiledModelNew(patternCount, weights, propagatorData, options) ==
    [model |-> [kind |-> "tiled", width |-> options.width,
                height |-> options.height, periodic |-> options.periodic,
                heuristic |-> options.heuristic, scanlineCursor |-> 0,
                patternCount |-> patternCount],
     wave |-> WaveNew(options.width, options.height, weights),
     prop |-> PropagatorNew(options.width, options.height, patternCount,
                            options.periodic, propagatorData),
     rng |-> RandomInit(options.seed),
     propagated |-> "none"]

\* the model the application builds from what loadTileset() returned
TiledFromData(data, options) ==
    SimpleTiledModelNew(data.totalTiles, data.weights, data.propagatorData,
                        options)

\* SimpleTiledModel.clear()
SimpleTiledClear(m, w, pr) ==
    [model |-> [m EXCEPT !.scanlineCursor = 0], wave |-> WaveClear(w),
     prop |-> PropagatorReset(pr), propagated |-> "none"]

\* the pixels of the tile images, tiles of one pixel each (tilesize 1): an
\* opaque colour per tile variant, none of them black
TilePixel(t) == [a |-> 255, b |-> 16 * (t + 1), g |-> 255 - 16 * t, r |-> 200]

\* 0xff000000
OpaqueBlack == [a |-> 255, b |-> 0, g |-> 0, r |-> 0]

\* a pixel of the buffer render() has not written
Unwritten == [a |-> 0, b |-> 0, g |-> 0, r |-> 0]

\* wave.getObserved(cellIndex)
GetObserved(w, cellIndex) ==
    IF w.memo.patternCount[cellIndex] # 1 THEN -1
    ELSE LET set == {p \in 0..(w.patternCount - 1) :
                        w.data[cellIndex * w.patternCount + p] = 1}
         IN  IF set = {} THEN -1
             ELSE CHOOSE p \in set : \A q \in set : p <= q

\* one channel of the weighted blend of the possible tiles, floored; with a
\* weight sum of 0 the normalization is Infinity and the channel ends as 0
BlendChannel(w, cellIndex, channel) ==
    LET possiblePatterns == WavePossible(w, cellIndex)
        sumWeight == SeqSum([k \in DOMAIN possiblePatterns |->
                                At(w.weights, possiblePatterns[k])])
    IN  IF sumWeight = 0 THEN 0
        ELSE SeqSum([k \in DOMAIN possiblePatterns |->
                        TilePixel(possiblePatterns[k])[channel]
                        * At(w.weights, possiblePatterns[k])])
             \div sumWeight

\* what render() writes for cell i on the superposition path
RenderCell(w, i, blackBackground) ==
    IF w.memo.patternCount[i] = 1
    THEN IF GetObserved(w, i) < 0 THEN Unwritten
         ELSE TilePixel(GetObserved(w, i))
    ELSE IF blackBackground /\ w.memo.patternCount[i] = w.patternCount
    THEN OpaqueBlack
    ELSE [a |-> 255, b |-> BlendChannel(w, i, "b"),
          g |-> BlendChannel(w, i, "g"), r |-> BlendChannel(w, i, "r")]

\* SimpleTiledModel.render(buffer) on a zeroed buffer: the pixel of each
\* cell.  The fast path of a fully collapsed wave stamps the observed tiles.
Render(w, blackBackground) ==
    IF \A i \in 0..(w.size - 1) : w.memo.patternCount[i] = 1
    THEN [i \in 0..(w.size - 1) |->
            IF GetObserved(w, i) < 0 THEN Unwritten
            ELSE TilePixel(GetObserved(w, i))]
    ELSE [i \in 0..(w.size - 1) |-> RenderCell(w, i, blackBackground)]

\* getEntropyData(): entropy, remaining and collapsed of every cell
GetEntropyData(w) ==
    [i \in 0..(w.size - 1) |->
        [entropy |-> w.memo.entropy[i],
         remaining |-> w.memo.patternCount[i],
         collapsed |-> w.memo.patternCount[i] = 1]]

\* the (dx, dy, t) whose pattern t, placed at (x - dx, y - dy), covers the
\* pixel of cell i: what the dy, dx and possiblePatterns loops of
\* OverlappingModel.render visit
Contributors(m, w, i) ==
    LET x == i % m.width
        y == i \div m.width
        Inside(dx, dy) ==
            m.periodic \/ ~(x - dx < 0 \/ y - dy < 0
                            \/ x - dx + m.N > m.width
                            \/ y - dy + m.N > m.height)
        Cell(dx, dy) ==
            IF m.periodic
            THEN ((x - dx + m.width) % m.width)
                 + ((y - dy + m.height) % m.height) * m.width
            ELSE (x - dx) + (y - dy) * m.width
    IN  {c \in (0..(m.N - 1)) \X (0..(m.N - 1)) \X (0..(w.patternCount - 1)) :
            Inside(c[1], c[2]) /\ WaveGet(w, Cell(c[1], c[2]), c[3])}

\* OverlappingModel.render(buffer): the pixel written for every cell, as
\* its alpha, red, green and blue bytes; buffer[i] is kept where a
\* collapsed cell has no observed pattern
OverlappingRender(m, w, buffer) ==
    [i \in 0..(w.size - 1) |->
        IF w.memo.patternCount[i] = 1
        THEN IF GetObserved(w, i) < 0 THEN buffer[i]
             ELSE LET argb == At(m.colors,
                                 At(At(m.patterns, GetObserved(w, i)), 0))
                  IN  [a |-> (argb \div 16777216) % 256,
                       r |-> (argb \div 65536) % 256,
                       g |-> (argb \div 256) % 256, b |-> argb % 256]
        ELSE LET cs == Contributors(m, w, i)
                 T == w.patternCount
                 order == Ascending({(c[1] + c[2] * m.N) * T + c[3] :
                                        c \in cs})
                 Argb(n) == At(m.colors,
                               At(At(m.patterns, n % T), n \div T))
                 Total(shift) ==
                    SeqSum([k \in DOMAIN order |->
                               (Argb(order[k]) \div shift) % 256])
             IN  IF cs = {} THEN OpaqueBlack
                 ELSE [a |-> 255,
                       r |-> Total(65536) \div Cardinality(cs),
                       g |-> Total(256) \div Cardinality(cs),
                       b |-> Total(1) \div Cardinality(cs)]]

(***************************************************************************)
(* Bounds and inputs                                                       *)
(***************************************************************************)
MaxW == 2
MaxH == 2
MaxSeed == 1
MaxCalls == 4
MaxOps == 3
MaxRandomSeed == 7
MaxDraws == 6
MaxScenarioSeed == 7
MaxColours == 257

\* sample images with the extraction options they are read with: pixels,
\* width, height, symmetry, periodicInput.  A pixel's packed colour is only
\* ever compared for equality, so small numbers stand for the colours.
\* In order: a checkerboard read as one pattern and as two, sky over ground
\* read as two patterns and as one, vertical stripes read as two patterns
\* and as six, and a sample smaller than the pattern (no pattern at all).
Samples ==
    { [pixels |-> <<1, 2, 2, 1>>, w |-> 2, h |-> 2,
       symmetry |-> 1, periodicInput |-> FALSE],
      [pixels |-> <<1, 2, 2, 1>>, w |-> 2, h |-> 2,
       symmetry |-> 8, periodicInput |-> TRUE],
      [pixels |-> <<16, 16, 32, 32>>, w |-> 2, h |-> 2,
       symmetry |-> 1, periodicInput |-> TRUE],
      [pixels |-> <<16, 16, 32, 32>>, w |-> 2, h |-> 2,
       symmetry |-> 2, periodicInput |-> FALSE],
      [pixels |-> <<10, 11, 12, 10, 11, 12>>, w |-> 3, h |-> 2,
       symmetry |-> 1, periodicInput |-> FALSE],
      [pixels |-> <<10, 11, 12, 10, 11, 12>>, w |-> 3, h |-> 2,
       symmetry |-> 2, periodicInput |-> TRUE],
      [pixels |-> <<7>>, w |-> 1, h |-> 1,
       symmetry |-> 1, periodicInput |-> FALSE] }

\* tilesets: a two-tile set where only b-b is forbidden, a line/corner set
\* with rotated variants, the same restricted to the subset {line} (one of
\* its rules names corner, a tile outside the subset), a set whose tile b
\* appears in no neighbor rule, and a set whose weights are all zero
Tilesets ==
    { [tiles |-> << [name |-> "a", symmetry |-> "X", weight |-> 1],
                    [name |-> "b", symmetry |-> "X", weight |-> 2] >>,
       neighbors |-> << [left |-> <<"a">>, right |-> <<"a">>],
                        [left |-> <<"a">>, right |-> <<"b">>] >>,
       subset |-> <<>>],
      [tiles |-> << [name |-> "line", symmetry |-> "I", weight |-> 1],
                    [name |-> "corner", symmetry |-> "L", weight |-> 1] >>,
       neighbors |-> << [left |-> <<"line">>, right |-> <<"line">>],
                        [left |-> <<"line">>, right |-> <<"corner", 1>>],
                        [left |-> <<"corner">>, right |-> <<"corner", 1>>],
                        [left |-> <<"corner", 1>>, right |-> <<"line", 1>>] >>,
       subset |-> <<>>],
      [tiles |-> << [name |-> "line", symmetry |-> "I", weight |-> 1],
                    [name |-> "corner", symmetry |-> "L", weight |-> 1] >>,
       neighbors |-> << [left |-> <<"line">>, right |-> <<"line">>],
                        [left |-> <<"line">>, right |-> <<"corner", 1>>] >>,
       subset |-> <<{"line"}>>],
      [tiles |-> << [name |-> "a", symmetry |-> "X", weight |-> 1],
                    [name |-> "b", symmetry |-> "X", weight |-> 1] >>,
       neighbors |-> << [left |-> <<"a">>, right |-> <<"a">>] >>,
       subset |-> <<>>] }

\* tilesets the specification wants rejected: the one whose rules name a
\* tile outside the chosen subset, and one whose weights are all zero
RejectedTilesets ==
    {tileset \in Tilesets : tileset.subset # <<>>} \cup
    { [tiles |-> << [name |-> "a", symmetry |-> "X", weight |-> 0],
                    [name |-> "b", symmetry |-> "X", weight |-> 0] >>,
       neighbors |-> << [left |-> <<"a">>, right |-> <<"a">>],
                        [left |-> <<"a">>, right |-> <<"b">>],
                        [left |-> <<"b">>, right |-> <<"b">>] >>,
       subset |-> <<>>] }

\* options outside their documented ranges, on the checkerboard sample:
\* patternSize 1, symmetry 3, and a grid without columns; and a sample too
\* small for any pattern
InvalidOptions ==
    LET checkerboard == [pixels |-> <<1, 2, 2, 1>>, w |-> 2, h |-> 2,
                         periodicInput |-> TRUE]
        pixel == [pixels |-> <<7>>, w |-> 1, h |-> 1,
                  periodicInput |-> FALSE]
    IN  { [sample |-> checkerboard, patternSize |-> 1, symmetry |-> 8,
           width |-> 2, height |-> 1],
          [sample |-> checkerboard, patternSize |-> 2, symmetry |-> 3,
           width |-> 2, height |-> 1],
          [sample |-> checkerboard, patternSize |-> 2, symmetry |-> 8,
           width |-> 0, height |-> 2],
          [sample |-> pixel, patternSize |-> 2, symmetry |-> 8,
           width |-> 2, height |-> 1] }

Heuristics == {"entropy", "mrv", "scanline"}

(***************************************************************************)
(* State                                                                   *)
(***************************************************************************)
VARIABLES
    model,          \* the model object's own fields
    wave,           \* its Wave
    propagator,     \* its Propagator
    rng,            \* its Random: the state number
    built,          \* what the constructor was given, and the wave,
                    \* propagator and cursor right after construction
    lastResult,     \* what the latest step() returned, "none" before any
    lastCell,       \* the cell the latest step() selected
    lastPattern,    \* the pattern the latest step() collapsed it to
    lastPropagate,  \* what the latest propagate() returned, "none" if not run
    lastOp,         \* the latest operation called
    calls           \* operations called so far

vars == <<model, wave, propagator, rng, built, lastResult, lastCell,
          lastPattern, lastPropagate, lastOp, calls>>

Constructed(c, config) ==
    /\ model = c.model
    /\ wave = c.wave
    /\ propagator = c.prop
    /\ rng = c.rng
    /\ built = [wave |-> c.wave, prop |-> c.prop,
                scanlineCursor |-> c.model.scanlineCursor,
                rng |-> c.rng, config |-> config]
    /\ lastResult = "none"
    /\ lastCell = -1
    /\ lastPattern = -1
    /\ lastPropagate = c.propagated
    /\ lastOp = "new"
    /\ calls = 0

\* an OverlappingModel built from a sample image
InitOverlapping ==
    \E sample \in Samples, W \in 1..MaxW, H \in 1..MaxH,
       periodic \in BOOLEAN, ground \in BOOLEAN,
       heuristic \in Heuristics, seed \in 0..MaxSeed :
        Constructed(OverlappingModelNew(sample.pixels, sample.w, sample.h,
            [patternSize |-> 2, symmetry |-> sample.symmetry,
             periodicInput |-> sample.periodicInput, ground |-> ground,
             heuristic |-> heuristic, seed |-> seed, width |-> W,
             height |-> H, periodic |-> periodic]),
            [kind |-> "overlapping", sample |-> sample, patternSize |-> 2,
             symmetry |-> sample.symmetry, width |-> W, height |-> H])

\* an OverlappingModel built with options outside their documented ranges
InitInvalid ==
    \E options \in InvalidOptions, heuristic \in Heuristics,
       seed \in 0..MaxSeed :
        Constructed(OverlappingModelNew(options.sample.pixels,
                                        options.sample.w, options.sample.h,
            [patternSize |-> options.patternSize,
             symmetry |-> options.symmetry,
             periodicInput |-> options.sample.periodicInput,
             ground |-> FALSE, heuristic |-> heuristic, seed |-> seed,
             width |-> options.width, height |-> options.height,
             periodic |-> FALSE]),
            [kind |-> "overlapping", sample |-> options.sample,
             patternSize |-> options.patternSize,
             symmetry |-> options.symmetry, width |-> options.width,
             height |-> options.height])

\* a SimpleTiledModel built from the data loadTileset returns
InitTiled ==
    \E tileset \in Tilesets, W \in 1..MaxW, H \in 1..MaxH,
       periodic \in BOOLEAN, heuristic \in Heuristics, seed \in 0..MaxSeed :
        Constructed(TiledFromData(LoadTileset(tileset),
            [width |-> W, height |-> H, periodic |-> periodic,
             heuristic |-> heuristic, seed |-> seed]),
            [kind |-> "tiled", tileset |-> tileset, width |-> W,
             height |-> H])

\* a SimpleTiledModel built from a tileset that should have been rejected
InitRejectedTiled ==
    \E tileset \in RejectedTilesets, W \in 1..MaxW, H \in 1..MaxH,
       periodic \in BOOLEAN, heuristic \in Heuristics, seed \in 0..MaxSeed :
        Constructed(TiledFromData(LoadTileset(tileset),
            [width |-> W, height |-> H, periodic |-> periodic,
             heuristic |-> heuristic, seed |-> seed]),
            [kind |-> "tiled", tileset |-> tileset, width |-> W,
             height |-> H])

Init == InitOverlapping \/ InitTiled

InitRejected == InitInvalid \/ InitRejectedTiled

\* a call of step()
Step ==
    /\ calls < MaxCalls
    /\ \E r \in {ModelStep(model, wave, propagator, rng)} :
           /\ model' = r.model
           /\ wave' = r.wave
           /\ propagator' = r.prop
           /\ rng' = r.rng
           /\ lastResult' = r.result
           /\ lastCell' = r.cell
           /\ lastPattern' = r.pattern
           /\ lastPropagate' = r.propagated
    /\ lastOp' = "step"
    /\ calls' = calls + 1
    /\ UNCHANGED built

\* a call of clear()
Clear ==
    /\ calls < MaxCalls
    /\ \E r \in {IF model.kind = "tiled"
                THEN SimpleTiledClear(model, wave, propagator)
                ELSE ModelClear(model, wave, propagator)} :
           /\ model' = r.model
           /\ wave' = r.wave
           /\ propagator' = r.prop
           /\ lastPropagate' = r.propagated
    /\ lastOp' = "clear"
    /\ calls' = calls + 1
    /\ UNCHANGED <<rng, built, lastResult, lastCell, lastPattern>>

Next == Step \/ Clear

Spec == Init /\ [][Next]_vars

\* the same operations on the models built from what should be rejected
SpecRejected == InitRejected /\ [][Next]_vars

(***************************************************************************)
(* The display of the application: step(), getLastCollapsedCell() and the  *)
(* getters getState(), getEntropyData(), render() on an OverlappingModel   *)
(* of the largest grid                                                     *)
(***************************************************************************)
InitHighlight ==
    \E sample \in Samples, periodic \in BOOLEAN, heuristic \in Heuristics,
       seed \in 0..MaxSeed :
        Constructed(OverlappingModelNew(sample.pixels, sample.w, sample.h,
            [patternSize |-> 2, symmetry |-> sample.symmetry,
             periodicInput |-> sample.periodicInput, ground |-> FALSE,
             heuristic |-> heuristic, seed |-> seed, width |-> MaxW,
             height |-> MaxH, periodic |-> periodic]),
            [kind |-> "overlapping", sample |-> sample, patternSize |-> 2,
             symmetry |-> sample.symmetry, width |-> MaxW, height |-> MaxH])

\* a call of getLastCollapsedCell(): the value returned is kept in
\* lastPattern, lastCell stays the cell the latest step() selected
GetLastCollapsedCellCall ==
    /\ calls < MaxCalls
    /\ LET r == GetMinEntropyCell(wave, rng)
       IN  /\ rng' = r.rng
           /\ lastPattern' = r.cell
    /\ lastOp' = "getLastCollapsedCell"
    /\ calls' = calls + 1
    /\ UNCHANGED <<model, wave, propagator, built, lastResult, lastCell,
                   lastPropagate>>

\* a call of getEntropyData() that draws from the generator as the entropy
\* selector does
GetEntropyDataCallDrawing ==
    /\ calls < MaxCalls
    /\ rng' = GetMinEntropyCell(wave, rng).rng
    /\ lastResult' = GetEntropyData(wave)
    /\ lastOp' = "getEntropyData"
    /\ calls' = calls + 1
    /\ UNCHANGED <<model, wave, propagator, built, lastCell, lastPattern,
                   lastPropagate>>

\* a call of getState(): the value returned is kept in lastResult
GetStateCall ==
    /\ calls < MaxCalls
    /\ lastResult' = GetState(wave)
    /\ lastOp' = "getState"
    /\ calls' = calls + 1
    /\ UNCHANGED <<model, wave, propagator, rng, built, lastCell,
                   lastPattern, lastPropagate>>

\* a call of getEntropyData(): the value returned is kept in lastResult
GetEntropyDataCall ==
    /\ calls < MaxCalls
    /\ lastResult' = GetEntropyData(wave)
    /\ lastOp' = "getEntropyData"
    /\ calls' = calls + 1
    /\ UNCHANGED <<model, wave, propagator, rng, built, lastCell,
                   lastPattern, lastPropagate>>

\* a call of render(buffer) on a zeroed buffer: the buffer afterwards is
\* kept in lastResult
RenderCall ==
    /\ calls < MaxCalls
    /\ lastResult' = OverlappingRender(model, wave,
                          [i \in 0..(wave.size - 1) |-> Unwritten])
    /\ lastOp' = "render"
    /\ calls' = calls + 1
    /\ UNCHANGED <<model, wave, propagator, rng, built, lastCell,
                   lastPattern, lastPropagate>>

NextHighlight ==
    \/ Step
    \/ GetLastCollapsedCellCall
    \/ GetStateCall
    \/ GetEntropyDataCall
    \/ RenderCall

SpecHighlight == InitHighlight /\ [][NextHighlight]_vars

(***************************************************************************)
(* run(maxSteps) and step() on models of the largest grid                  *)
(***************************************************************************)
\* the caps run() is called with: none, zero, and some steps
RunCaps == {-1, 0, 1, 2}

InitRun ==
    \/ InitHighlight
    \/ \E tileset \in Tilesets, periodic \in BOOLEAN,
          heuristic \in Heuristics, seed \in 0..MaxSeed :
           Constructed(TiledFromData(LoadTileset(tileset),
               [width |-> MaxW, height |-> MaxH, periodic |-> periodic,
                heuristic |-> heuristic, seed |-> seed]),
               [kind |-> "tiled", tileset |-> tileset, width |-> MaxW,
                height |-> MaxH])

\* a call of run(maxSteps): lastResult is the value returned, lastPattern
\* the cap, lastCell the number of step() calls it made and lastPropagate
\* what the last of them returned ("none" when there was none)
RunCall ==
    /\ calls < MaxCalls
    /\ \E maxSteps \in RunCaps :
        \E r \in {ModelRun(model, wave, propagator, rng, maxSteps)} :
            /\ model' = r.model
            /\ wave' = r.wave
            /\ propagator' = r.prop
            /\ rng' = r.rng
            /\ lastResult' = Returned(r.ret)
            /\ lastCell' = r.stepCalls
            /\ lastPattern' = maxSteps
            /\ lastPropagate' = r.last
    /\ lastOp' = "run"
    /\ calls' = calls + 1
    /\ UNCHANGED built

NextRun == Step \/ RunCall

SpecRun == InitRun /\ [][NextRun]_vars

(***************************************************************************)
(* A second specification: the Wave and Propagator objects driven directly *)
(* through their public methods, on any cell and pattern, the way step(),  *)
(* applyGroundConstraint() and clear() drive them.                         *)
(***************************************************************************)
\* weights and propagator data a Wave and a Propagator are built with
WaveInputs ==
    { [weights |-> <<1, 2>>,
       data |-> LoadTileset(CHOOSE ts \in Tilesets :
                    ts.tiles[2].weight = 2).propagatorData],
      [weights |-> <<2, 1, 3>>,
       data |-> BuildPropagator(<< <<0, 1, 0, 1>>, <<1, 2, 1, 2>>,
                                   <<2, 0, 2, 0>> >>, 2)] }

InitWave ==
    \E input \in WaveInputs, W \in 1..MaxW, H \in 1..MaxH,
       periodic \in BOOLEAN, seed \in 0..MaxSeed :
        Constructed(
            [model |-> [kind |-> "wave", width |-> W, height |-> H,
                        periodic |-> periodic, heuristic |-> "none",
                        scanlineCursor |-> 0,
                        patternCount |-> Len(input.weights)],
             wave |-> WaveNew(W, H, input.weights),
             prop |-> PropagatorNew(W, H, Len(input.weights), periodic,
                                    input.data),
             rng |-> RandomInit(seed),
             propagated |-> "none"],
            [kind |-> "wave", width |-> W, height |-> H])

\* wave.remove(i, t), followed by addToPropagate(i, t) when it returned true
RemoveCall ==
    /\ calls < MaxOps
    /\ \E i \in 0..(wave.size - 1), t \in 0..(wave.patternCount - 1) :
        LET r == WaveRemove(wave, i, t)
        IN  /\ wave' = r.wave
            /\ propagator' = IF r.ret THEN AddToPropagate(propagator, i, t)
                             ELSE propagator
            /\ lastResult' = Returned(r.ret)
            /\ lastCell' = i
            /\ lastPattern' = t
    /\ lastOp' = "remove"
    /\ calls' = calls + 1
    /\ UNCHANGED <<model, rng, built, lastPropagate>>

\* wave.collapse(i, rng), followed by the pushes step() makes
CollapseCall ==
    /\ calls < MaxOps
    /\ \E i \in 0..(wave.size - 1) :
        LET remainingPatterns == WavePossible(wave, i)
            col == WaveCollapse(wave, i, rng)
        IN  /\ wave' = col.wave
            /\ rng' = col.rng
            /\ propagator' = IF col.ret = -1 THEN propagator
                             ELSE PushRemoved(propagator, i,
                                              remainingPatterns, col.ret, 0)
            /\ lastResult' = "collapsed"
            /\ lastCell' = i
            /\ lastPattern' = col.ret
    /\ lastOp' = "collapse"
    /\ calls' = calls + 1
    /\ UNCHANGED <<model, built, lastPropagate>>

\* propagator.propagate(wave)
PropagateCall ==
    /\ calls < MaxOps
    /\ LET r == Propagate(wave, propagator)
       IN  /\ wave' = r.wave
           /\ propagator' = r.prop
           /\ lastPropagate' = Returned(r.ok)
    /\ lastOp' = "propagate"
    /\ calls' = calls + 1
    /\ UNCHANGED <<model, rng, built, lastResult, lastCell, lastPattern>>

\* wave.clear() and propagator.reset()
ClearCall ==
    /\ calls < MaxOps
    /\ wave' = WaveClear(wave)
    /\ propagator' = PropagatorReset(propagator)
    /\ lastOp' = "clear"
    /\ calls' = calls + 1
    /\ UNCHANGED <<model, rng, built, lastResult, lastCell, lastPattern,
                   lastPropagate>>

\* propagator.propagateStep(wave)
PropagateStepCall ==
    /\ calls < MaxOps
    /\ \E r \in {PropagateStep(wave, propagator)} :
        /\ wave' = r.wave
        /\ propagator' = r.prop
        /\ lastPropagate' = IF r.contradiction THEN "contradiction"
                            ELSE IF r.done THEN "done" ELSE "more"
    /\ lastOp' = "propagateStep"
    /\ calls' = calls + 1
    /\ UNCHANGED <<model, rng, built, lastResult, lastCell, lastPattern>>

NextWave ==
    RemoveCall \/ CollapseCall \/ PropagateCall \/ ClearCall \/ PropagateStepCall

SpecWave == InitWave /\ [][NextWave]_vars

(***************************************************************************)
(* A fifth specification: two runs of step() calls on an OverlappingModel  *)
(* with the default (entropy) heuristic.  The checkerboard: the 2x2 sample *)
(* [B,W; W,B] read with N = 2, symmetry 8 and periodic input, on a 4x4     *)
(* grid.  The contradiction: a 1x1 sample, from which N = 2 without        *)
(* periodic input extracts no pattern, on a 3x3 non-periodic grid.         *)
(***************************************************************************)
InitCheckerboard ==
    \E periodic \in BOOLEAN, seed \in 0..MaxScenarioSeed :
        Constructed(OverlappingModelNew(<<1, 2, 2, 1>>, 2, 2,
            [patternSize |-> 2, symmetry |-> 8, periodicInput |-> TRUE,
             ground |-> FALSE, heuristic |-> "entropy", seed |-> seed,
             width |-> 4, height |-> 4, periodic |-> periodic]),
            [kind |-> "overlapping", scenario |-> "checkerboard",
             patternSize |-> 2, symmetry |-> 8, width |-> 4, height |-> 4])

InitContradiction ==
    \E ground \in BOOLEAN, seed \in 0..MaxScenarioSeed :
        Constructed(OverlappingModelNew(<<7>>, 1, 1,
            [patternSize |-> 2, symmetry |-> 8, periodicInput |-> FALSE,
             ground |-> ground, heuristic |-> "entropy", seed |-> seed,
             width |-> 3, height |-> 3, periodic |-> FALSE]),
            [kind |-> "overlapping", scenario |-> "contradiction",
             patternSize |-> 2, symmetry |-> 8, width |-> 3, height |-> 3])

InitScenario == InitCheckerboard \/ InitContradiction

\* one more call of step() has been made
StepCalled == calls < MaxCalls /\ calls' = calls + 1

\* the host calls step() again and again: every call is a Step, and a call
\* that stays possible is eventually made
SpecScenario == InitScenario /\ [][Step]_vars /\ WF_calls(StepCalled)

(***************************************************************************)
(* A fourth specification: a Wave whose cells are narrowed with remove()   *)
(* and then scanned with getMinEntropyCell(rng).                           *)
(***************************************************************************)
\* weights of three patterns: near-equal ones, whose two-pattern cells have
\* entropies closer than the noise scale, and equal ones
EntropyWeights == { <<8, 9, 9>>, <<1, 1, 1>> }

InitEntropy ==
    \E weights \in EntropyWeights, W \in 1..MaxW, H \in 1..MaxH,
       seed \in 0..MaxSeed :
        Constructed(
            [model |-> [kind |-> "wave", width |-> W, height |-> H,
                        periodic |-> FALSE, heuristic |-> "entropy",
                        scanlineCursor |-> 0,
                        patternCount |-> Len(weights)],
             wave |-> WaveNew(W, H, weights),
             prop |-> PropagatorNew(W, H, Len(weights), FALSE,
                        [t \in 0..(Len(weights) - 1) |->
                            [d \in Directions |->
                                Ascending(0..(Len(weights) - 1))]]),
             rng |-> RandomInit(seed),
             propagated |-> "none"],
            [kind |-> "wave", width |-> W, height |-> H])

\* wave.getMinEntropyCell(rng): lastCell is the value returned
GetMinEntropyCall ==
    /\ calls < MaxOps
    /\ LET r == GetMinEntropyCell(wave, rng)
       IN  /\ rng' = r.rng
           /\ lastCell' = r.cell
    /\ lastResult' = "selected"
    /\ lastOp' = "getMinEntropyCell"
    /\ calls' = calls + 1
    /\ UNCHANGED <<model, wave, propagator, built, lastPattern,
                   lastPropagate>>

NextEntropy == RemoveCall \/ GetMinEntropyCall

SpecEntropy == InitEntropy /\ [][NextEntropy]_vars

(***************************************************************************)
(* A third specification: a Random object alone, drawn from with next()    *)
(* and nextInt(max).  calls counts the numbers drawn.                      *)
(***************************************************************************)
\* seeds at both ends of the range TLC's integers can hold
RandomSeeds == (0..MaxRandomSeed) \cup {2^30 + (2^30 - 1) - s : s \in 0..MaxRandomSeed}

\* arguments of nextInt
NextIntMaxima == {1, 2, 3, 10, 1000}

InitRandom ==
    \E seed \in RandomSeeds :
        /\ model = [kind |-> "random"]
        /\ wave = <<>>
        /\ propagator = <<>>
        /\ rng = RandomInit(seed)
        /\ built = [seed |-> seed]
        /\ lastResult = "none"
        /\ lastCell = -1
        /\ lastPattern = -1
        /\ lastPropagate = "none"
        /\ lastOp = "new"
        /\ calls = 0

\* rng.next(): lastResult is the numerator over 2^32 of the float returned
NextCall ==
    /\ calls < MaxDraws
    /\ LET draw == RandomNext(rng)
       IN  /\ rng' = draw.state
           /\ lastResult' = draw.value
    /\ lastOp' = "next"
    /\ calls' = calls + 1
    /\ UNCHANGED <<model, wave, propagator, built, lastCell, lastPattern,
                   lastPropagate>>

\* rng.nextInt(max): lastCell is max, lastPattern the integer returned
NextIntCall ==
    /\ calls < MaxDraws
    /\ \E max \in NextIntMaxima :
        LET r == RandomNextInt(rng, max)
        IN  /\ rng' = r.state
            /\ lastResult' = r.drawn
            /\ lastCell' = max
            /\ lastPattern' = r.value
    /\ lastOp' = "nextInt"
    /\ calls' = calls + 1
    /\ UNCHANGED <<model, wave, propagator, built, lastPropagate>>

NextRandom == NextCall \/ NextIntCall

SpecRandom == InitRandom /\ [][NextRandom]_vars

(***************************************************************************)
(* Properties                                                              *)
(***************************************************************************)
\* the patterns whose bit is set at cell i of wave w
PossibleAt(w, i) == {t \in 0..(w.patternCount - 1) : WaveGet(w, i, t)}

\* remaining(i), recomputed from the bits
Remaining(w, i) == Cardinality(PossibleAt(w, i))

Contradiction(w) == \E i \in 0..(w.size - 1) : Remaining(w, i) = 0

\* cell i has a neighbour in direction d, and which cell it is
Linked(i, d) ==
    HasNeighbor(propagator.width, propagator.height, propagator.periodic,
                i, d)

Neighbour(i, d) == NeighborIndex(propagator.width, propagator.height, i, d)

\* compat[t][d] as a set
Compat(t, d) ==
    {propagator.propagatorData[t][d][k] :
        k \in 1..Len(propagator.propagatorData[t][d])}

\* compat is symmetric across opposite directions
CompatSymmetric ==
    \A t \in 0..(wave.patternCount - 1), d \in Directions :
        \A t2 \in Compat(t, d) : t \in Compat(t2, OPPOSITE[d + 1])

\* every possible pattern has a supporter in every neighbouring cell
ArcConsistent ==
    \A i \in 0..(wave.size - 1), d \in Directions :
        Linked(i, d) =>
            \A t \in PossibleAt(wave, i) :
                \E t2 \in PossibleAt(wave, Neighbour(i, d)) :
                    t2 \in Compat(t, d)

\* count[i][t][d] is the number of patterns possible at the neighbour in
\* direction d that support t
CountsMatch ==
    \A i \in 0..(wave.size - 1), t \in 0..(wave.patternCount - 1),
       d \in Directions :
        Linked(i, d) =>
            propagator.compatible[i * wave.patternCount * 4 + t * 4 + d]
            = Cardinality({t2 \in PossibleAt(wave, Neighbour(i, d)) :
                              t \in Compat(t2, OPPOSITE[d + 1])})

CountsNonNegative ==
    \A idx \in DOMAIN propagator.compatible : propagator.compatible[idx] >= 0

\* C1: when step() returns 'success' every cell has exactly one remaining
\* pattern and, for every cell i and direction d in which i has a neighbour
\* j, the pattern observed at j is in compat[observed(i)][d].
C1_SuccessIsConsistent ==
    (lastOp = "step" /\ lastResult = "success") =>
        /\ \A i \in 0..(wave.size - 1) : Remaining(wave, i) = 1
        /\ \A i \in 0..(wave.size - 1), d \in Directions :
            Linked(i, d) =>
                \A t \in PossibleAt(wave, i),
                   t2 \in PossibleAt(wave, Neighbour(i, d)) :
                    t2 \in Compat(t, d)

\* C2: step() returns 'failure' if and only if some cell has no pattern left
\* when it returns (so 'continue' and 'success' leave every cell with at
\* least one), and a step() called while some cell has no pattern left, as
\* after a contradictory ground constraint, returns 'failure'.
C2_FailureIffEmptyCell ==
    [][lastOp' = "step" =>
        /\ (lastResult' = "failure") <=> Contradiction(wave')
        /\ Contradiction(wave) => lastResult' = "failure"]_vars

\* a first step() that reports the contradiction the ground constraint made
\* at construction
C2_Witness ==
    /\ lastOp = "step" /\ calls = 1 /\ lastResult = "failure"
    /\ model.kind = "overlapping" /\ model.ground
    /\ Contradiction(built.wave)
    /\ model.heuristic = "entropy"

\* C4: after propagate(wave) has returned true the wave is arc-consistent,
\* for any compat relation symmetric across opposite directions.
C4_ArcConsistentAfterPropagate ==
    (CompatSymmetric /\ lastPropagate = "true") => ArcConsistent

\* C5 as stated: after construction, after clear() and after every step()
\* that does not return 'failure' the work stack is empty and every count
\* equals the number of supporters left in the neighbour; no count is
\* negative.
C5_CountsAfterEveryOperation ==
    /\ CountsNonNegative
    /\ (lastOp \in {"new", "clear"}
        \/ (lastOp = "step" /\ lastResult # "failure")) =>
            /\ Len(propagator.stack) = 0
            /\ CountsMatch

\* C5 amended: whenever the work stack is empty every count equals the
\* number of supporters left in the neighbour, and no count is ever
\* negative; the stack is empty after every step() that does not return
\* 'failure', and after construction and clear() unless the ground
\* constraint has left a cell without patterns.
C5_CountsMatchSupporters ==
    /\ CountsNonNegative
    /\ Len(propagator.stack) = 0 => CountsMatch
    /\ (lastOp = "step" /\ lastResult # "failure") =>
            Len(propagator.stack) = 0
    /\ (lastOp \in {"new", "clear"} /\ ~Contradiction(wave)) =>
            Len(propagator.stack) = 0

\* a step() that continued, emptied the stack and lowered some count
C5_Witness ==
    /\ lastOp = "step" /\ lastResult = "continue"
    /\ Len(propagator.stack) = 0
    /\ \E idx \in DOMAIN propagator.compatible :
        propagator.compatible[idx] < built.prop.compatible[idx]

\* C6: after any sequence of remove, collapse, propagate and clear calls
\* the memoized remaining count of every cell is the number of its set bits
\* and the memoized weight sum is the sum of the weights of those patterns.
C6_MemoMatchesBits ==
    \A i \in 0..(wave.size - 1) :
        /\ wave.memo.patternCount[i] = Remaining(wave, i)
        /\ wave.memo.sum[i]
           = SeqSum([t \in 1..wave.patternCount |->
                        IF WaveGet(wave, i, t - 1) THEN wave.weights[t]
                        ELSE 0])

\* a propagate() that has removed a pattern from a cell other than the one
\* last removed from or collapsed
C6_Witness ==
    /\ lastOp = "propagate"
    /\ \E i \in 0..(wave.size - 1) :
        /\ i # lastCell
        /\ Remaining(wave, i) < wave.patternCount
        /\ Remaining(wave, i) > 0

\* what clear() restores, the stack apart
ClearRestores ==
    /\ wave.data = built.wave.data
    /\ wave.memo.patternCount = built.wave.memo.patternCount
    /\ wave.memo.sum = built.wave.memo.sum
    /\ propagator.compatible = built.prop.compatible
    /\ model.scanlineCursor = built.scanlineCursor

\* C7 as stated: clear() returns every wave bit, remaining count, weight
\* sum and compatibility count and the scanline cursor to their values
\* right after construction, and leaves the work stack empty.
C7_ClearLeavesEmptyStack ==
    lastOp = "clear" => (ClearRestores /\ propagator.stack = <<>>)

\* C7 amended: clear() returns every wave bit, remaining count, weight sum
\* and compatibility count, the scanline cursor and the work stack to their
\* values right after construction; the stack is empty unless the ground
\* constraint left a contradiction at construction.
C7_ClearRestoresConstruction ==
    lastOp = "clear" =>
        /\ ClearRestores
        /\ propagator.stack = built.prop.stack
        /\ ~Contradiction(built.wave) => propagator.stack = <<>>

\* a clear() after a step() that failed, propagate() having emptied a cell
\* of a model whose construction left no contradiction
C7_Witness ==
    /\ lastOp = "clear" /\ lastResult = "failure" /\ lastCell >= 0
    /\ ~Contradiction(built.wave)
    /\ wave.patternCount >= 2

\* C8: with ground enabled, in every state no cell of the bottom row has a
\* pattern other than the last one possible and no cell of another row has
\* the last pattern possible.
C8_GroundRows ==
    (model.kind = "overlapping" /\ model.ground) =>
        \A i \in 0..(wave.size - 1) :
            IF i \div wave.width = wave.height - 1
            THEN PossibleAt(wave, i) \subseteq {wave.patternCount - 1}
            ELSE (wave.patternCount - 1) \notin PossibleAt(wave, i)

\* a ground-constrained model of two rows and several patterns, cleared
\* after a run that succeeded
C8_Witness ==
    /\ model.kind = "overlapping" /\ model.ground
    /\ wave.height = 2 /\ wave.patternCount >= 2
    /\ lastOp = "clear" /\ lastResult = "success"

\* C9: remove(i, t) on a bit that is set returns true and clears that bit
\* only; on a bit that is clear it returns false and changes nothing of
\* the wave.
C9_RemoveIdempotent ==
    [][lastOp' = "remove" =>
        LET dataIndex == lastCell' * wave.patternCount + lastPattern'
        IN  IF WaveGet(wave, lastCell', lastPattern')
            THEN /\ lastResult' = "true"
                 /\ wave'.data = [wave.data EXCEPT ![dataIndex] = 0]
            ELSE /\ lastResult' = "false"
                 /\ wave' = wave]_vars

\* a remove() of a bit that an earlier call had cleared
C9_Witness ==
    /\ lastOp = "remove" /\ lastResult = "false"
    /\ ~WaveGet(wave, lastCell, lastPattern)

\* C10: a step() that follows a step() that returned 'failure' returns
\* 'failure' and removes no pattern, and whenever step() has returned
\* 'failure' getState() reports hasContradiction and not isComplete.
C10_ContradictionIsTerminal ==
    [][/\ (lastOp' = "step" /\ lastResult' = "failure") =>
            /\ GetState(wave').hasContradiction
            /\ ~GetState(wave').isComplete
       /\ (lastOp = "step" /\ lastResult = "failure" /\ lastOp' = "step") =>
            /\ lastResult' = "failure"
            /\ wave'.data = wave.data]_vars

\* a step() that found the contradiction an earlier step() had made
C10_Witness ==
    /\ lastOp = "step" /\ lastResult = "failure" /\ lastCell = -2
    /\ ~Contradiction(built.wave)
    /\ wave.patternCount > 0

\* C11 as stated: whenever step() returns, whatever its result, the work
\* stack is empty.
C11_StackEmptyAfterStep ==
    lastOp = "step" => propagator.stack = <<>>

\* C11 amended: whenever step() returns 'continue' or 'success' the work
\* stack is empty; a step() whose propagate() met a contradiction returns
\* 'failure' with the pair removed last still on the stack.
C11_StackEmptyUnlessFailure ==
    [][lastOp' = "step" =>
        /\ lastResult' \in {"continue", "success"} =>
                propagator'.stack = <<>>
        /\ lastPropagate' = "false" =>
                /\ lastResult' = "failure"
                /\ propagator'.stack # <<>>
                /\ LET top == propagator'.stack[Len(propagator'.stack)]
                   IN  ~WaveGet(wave', top[1], top[2])]_vars

\* a step() that continued after propagate() had removed patterns from a
\* cell other than the collapsed one
C11_Witness ==
    /\ lastOp = "step" /\ lastResult = "continue"
    /\ lastPropagate = "true"
    /\ propagator.stack = <<>>
    /\ \E i \in 0..(wave.size - 1) :
        i # lastCell /\ Remaining(wave, i) < Remaining(built.wave, i)

\* the names a neighbor rule of a tileset uses that are not tiles the
\* loader kept (unknown, or outside the chosen subset)
UnknownTiles(tileset) ==
    {name \in {tileset.neighbors[n].left[1] : n \in DOMAIN tileset.neighbors}
            \cup {tileset.neighbors[n].right[1] :
                      n \in DOMAIN tileset.neighbors} :
        \A j \in DOMAIN LoadedTiles(tileset) :
            LoadedTiles(tileset)[j].name # name}

\* the configurations the specification calls invalid
InvalidConfiguration(config) ==
    \/ config.width <= 0
    \/ config.height <= 0
    \/ /\ config.kind = "overlapping"
       /\ \/ config.patternSize < 2
          \/ config.symmetry \notin {1, 2, 8}
          \/ model.patternCount = 0
    \/ /\ config.kind = "tiled"
       /\ UnknownTiles(config.tileset) # {}

\* C12: a model is never constructed from an invalid configuration:
\* patternSize < 2, symmetry outside {1, 2, 8}, W or H <= 0, an empty
\* pattern set after extraction, or a neighbor rule naming a tile that is
\* unknown or outside the chosen subset.
C12_InvalidConfigurationRejected == ~InvalidConfiguration(built.config)

\* C13: no Wave and no model is created from a pattern set whose weights
\* are all zero.
C13_ZeroWeightsRejected ==
    wave.patternCount > 0 => SeqSum(wave.weights) > 0

\* the state of reference mulberry32 after k calls: s <- (s + 0x6d2b79f5)
\* mod 2^32, from the seed
RECURSIVE ReferenceState(_, _)
ReferenceState(seed, k) ==
    IF k = 0 THEN <<seed % Limb, (seed \div Limb) % Limb>>
    ELSE Add32(ReferenceState(seed, k - 1), <<31221, 27947>>)

\* C14: after k calls of next() the stored state lies in [0, 2^32) and is
\* (seed + k * 0x6d2b79f5) mod 2^32, and the number returned is the one
\* reference mulberry32 returns from that state.
C14_StateIsUint32 ==
    /\ rng[3] = 0
    /\ <<rng[1], rng[2]>> = ReferenceState(built.seed, calls)
    /\ calls > 0 =>
            lastResult = RandomOutput(ReferenceState(built.seed, calls))

\* C15: next() returns an integer of [0, 2^32) over 2^32, and nextInt(max)
\* an integer of [0, max).
C15_DrawsInRange ==
    /\ lastOp \in {"next", "nextInt"} =>
            /\ lastResult[1] \in 0..(Limb - 1)
            /\ lastResult[2] \in 0..(Limb - 1)
    /\ lastOp = "nextInt" => lastPattern \in 0..(lastCell - 1)

\* a nextInt(max) that returned max - 1 from a float of at least 1/2
C15_Witness ==
    /\ lastOp = "nextInt" /\ lastCell >= 2
    /\ lastPattern = lastCell - 1
    /\ lastResult[2] >= Limb \div 2

\* C16: getMinEntropyCell never returns a cell whose memoized entropy is
\* strictly greater than that of another cell with two or more patterns
\* left, whatever the noise drawn.
C16_NoiseKeepsOrder ==
    (lastOp = "getMinEntropyCell" /\ lastCell >= 0) =>
        \A j \in 0..(wave.size - 1) :
            wave.memo.patternCount[j] >= 2 =>
                wave.memo.entropy[lastCell] <= wave.memo.entropy[j]

\* C17: collapse(i, rng) on a cell with a pattern left returns a pattern
\* t* that was possible at i: the first in index order whose running
\* weight sum over the possible patterns is >= target = next() * sum, else
\* the last possible one; it leaves cell i with exactly t* possible and
\* changes no other cell.  On a cell with no pattern left it returns -1
\* and changes nothing.
C17_CollapseSelects ==
    [][lastOp' = "collapse" =>
        LET i == lastCell'
            before == PossibleAt(wave, i)
            sum == SeqSum([t \in 1..wave.patternCount |->
                            IF (t - 1) \in before THEN wave.weights[t]
                            ELSE 0])
            Running(p) == SeqSum([t \in 1..wave.patternCount |->
                            IF (t - 1) \in before /\ t - 1 <= p
                            THEN wave.weights[t] ELSE 0])
            reaching == {p \in before :
                            ReachesTarget(Running(p), RandomNext(rng).value,
                                          sum)}
        IN  IF before = {}
            THEN lastPattern' = -1 /\ wave' = wave /\ rng' = rng
            ELSE /\ lastPattern' \in before
                 /\ IF reaching # {}
                    THEN /\ lastPattern' \in reaching
                         /\ \A p \in reaching : lastPattern' <= p
                    ELSE \A p \in before : lastPattern' >= p
                 /\ PossibleAt(wave', i) = {lastPattern'}
                 /\ \A j \in 0..(wave.size - 1) :
                        j # i =>
                            /\ PossibleAt(wave', j) = PossibleAt(wave, j)
                            /\ wave'.memo.patternCount[j]
                               = wave.memo.patternCount[j]
                            /\ wave'.memo.sum[j] = wave.memo.sum[j]]_vars

\* a collapse() that drew a number and selected a pattern of a
\* three-pattern cell other than the first
C17_Witness ==
    /\ lastOp = "collapse" /\ lastPattern >= 1
    /\ wave.patternCount = 3
    /\ rng[2] > 0
    /\ PossibleAt(wave, lastCell) = {lastPattern}

\* C18: under the scanline heuristic each cell step() chooses is the
\* lowest-index cell with more than one pattern left at or after the
\* cursor, the cursor then moves to that index + 1 and never moves back,
\* so successive steps choose strictly increasing indices; clear() resets
\* the cursor to 0.
C18_ScanlineOrder ==
    [][model.heuristic = "scanline" =>
        /\ (lastOp' = "step" /\ lastCell' >= 0) =>
                /\ lastCell' >= model.scanlineCursor
                /\ Remaining(wave, lastCell') >= 2
                /\ \A j \in model.scanlineCursor..(lastCell' - 1) :
                        Remaining(wave, j) <= 1
                /\ model'.scanlineCursor = lastCell' + 1
        /\ lastOp' = "step" =>
                model'.scanlineCursor >= model.scanlineCursor
        /\ (lastOp = "step" /\ lastCell >= 0
            /\ lastOp' = "step" /\ lastCell' >= 0) => lastCell' > lastCell
        /\ lastOp' = "clear" => model'.scanlineCursor = 0]_vars

\* a scanline step() that passed over a cell that was already collapsed
C18_Witness ==
    /\ model.heuristic = "scanline"
    /\ lastOp = "step" /\ lastResult = "continue"
    /\ lastCell >= calls
    /\ model.scanlineCursor = lastCell + 1

\* the two runs of the fifth specification
Checkerboard == built.config.scenario = "checkerboard"

NoPattern == built.config.scenario = "contradiction"

\* any two horizontally or vertically adjacent cells hold different patterns
Alternating ==
    \A i \in 0..(wave.size - 1), d \in Directions :
        Linked(i, d) =>
            PossibleAt(wave, i) \cap PossibleAt(wave, Neighbour(i, d)) = {}

\* the checkerboard pattern set: two patterns, each compatible only with
\* the other in all four directions
CheckerboardPatterns ==
    /\ wave.patternCount = 2
    /\ \A t \in 0..1, d \in Directions : Compat(t, d) = {1 - t}

\* no contradiction, and at 'success' every cell is collapsed and adjacent
\* cells differ
CheckerboardSound ==
    /\ lastResult # "failure"
    /\ ~Contradiction(wave)
    /\ lastResult = "success" =>
            /\ \A i \in 0..(wave.size - 1) : Remaining(wave, i) = 1
            /\ Alternating

\* C19: the checkerboard pattern set (two patterns, each compatible only
\* with the other in all four directions) on a 4x4 grid with the entropy
\* heuristic reaches 'success' without contradiction for every seed, and
\* there any two adjacent cells hold different patterns.
C19_CheckerboardSucceeds ==
    /\ [](Checkerboard => (CheckerboardPatterns /\ CheckerboardSound))
    /\ Checkerboard ~> (lastResult = "success" /\ Alternating)

\* a checkerboard run that has succeeded on the grid that wraps around
C19_Witness ==
    /\ Checkerboard /\ propagator.periodic
    /\ lastOp = "step" /\ lastResult = "success"
    /\ \A i \in 0..(wave.size - 1) : Remaining(wave, i) = 1

\* C20: from a sample no pattern can be extracted from (T = 0), on a 3x3
\* non-periodic grid, construction succeeds and the very first step()
\* returns 'failure', whatever the seed.
C20_NoPatternFailsFirstStep ==
    NoPattern =>
        /\ wave.patternCount = 0
        /\ wave.size = 9
        /\ lastOp = "step" => lastResult = "failure"

\* the first step() of a run without patterns
C20_Witness ==
    /\ NoPattern /\ lastOp = "step" /\ calls = 1
    /\ lastResult = "failure" /\ lastCell = -2

\* the sum of arr over the patterns still possible at cell i
SumOverPossible(w, i, arr) ==
    SeqSum([t \in 1..w.patternCount |->
               IF WaveGet(w, i, t - 1) THEN arr[t] ELSE 0])

\* logSum - plogpSum / sum recomputed from the possible set of cell i, and
\* 0 when the sum is 0
RecomputedEntropy(w, i) ==
    LET sum == SumOverPossible(w, i, w.weights)
    IN  IF sum > 0
        THEN Ln(sum) - (SumOverPossible(w, i, w.plogp) \div sum)
        ELSE 0

\* C21: at all times (right after construction and clear() as well as
\* after removals) the memoized entropy of every cell equals
\* logSum - plogpSum/sum recomputed from the cell's current possible set,
\* and it is 0 whenever remaining <= 1.
C21_EntropyRecomputed ==
    \A i \in 0..(wave.size - 1) :
        /\ wave.memo.entropy[i] = RecomputedEntropy(wave, i)
        /\ Remaining(wave, i) <= 1 => wave.memo.entropy[i] = 0

\* the patches of the sample a model was built from, one per origin the
\* extraction loops visit
SamplePatches(config) ==
    LET sample == config.sample
        N == config.patternSize
        xmax == IF sample.periodicInput THEN sample.w ELSE sample.w - N + 1
        ymax == IF sample.periodicInput THEN sample.h ELSE sample.h - N + 1
    IN  {PatternFromSample(ExtractColors(sample.pixels).sample, sample.w,
                           sample.h, N, x, y) :
            x \in 0..(xmax - 1), y \in 0..(ymax - 1)}

\* a patch turned by 180 degrees: cell (x, y) takes the value of
\* (N - 1 - x, N - 1 - y)
HalfTurn(p, N) ==
    [k \in 1..(N * N) |->
        LET x == (k - 1) % N
            y == (k - 1) \div N
        IN  At(p, (N - 1 - x) + (N - 1 - y) * N)]

\* C22: with symmetry = 2 the patterns extracted are, for each sample
\* patch, the patch itself and its 180-degree rotation, and nothing else.
C22_SymmetryTwoAddsHalfTurn ==
    (built.config.kind = "overlapping" /\ built.config.symmetry = 2) =>
        {model.patterns[i] : i \in DOMAIN model.patterns}
        = UNION {{p, HalfTurn(p, built.config.patternSize)} :
                    p \in SamplePatches(built.config)}

\* C23: SimpleTiledModel.render with blackBackground enabled stamps every
\* uncollapsed cell (remaining different from 1, untouched or partly
\* constrained) opaque black, and every collapsed cell with the pixels of
\* its observed tile.
C23_UncollapsedIsBlack ==
    model.kind = "tiled" =>
        \A i \in 0..(wave.size - 1) :
            Render(wave, TRUE)[i] =
                IF Remaining(wave, i) = 1
                THEN TilePixel(CHOOSE t \in PossibleAt(wave, i) : TRUE)
                ELSE OpaqueBlack

\* C24: getLastCollapsedCell() returns the index of the cell that the most
\* recent step() collapsed.
C24_ReturnsLastCollapsed ==
    (lastOp = "getLastCollapsedCell" /\ lastCell >= 0) =>
        lastPattern = lastCell

\* C25: propagate(wave) terminates after at most W*H*T pops: no
\* (cell, pattern) pair is popped twice, every popped pair is one whose
\* bit has been removed, and outside clear() no removed bit is set again.
C25_PropagateTerminates ==
    [][/\ PropagateCall =>
            LET pops == PoppedPairs(wave, propagator)
            IN  /\ Len(pops) <= wave.size * wave.patternCount
                /\ \A j, k \in DOMAIN pops : pops[j] = pops[k] => j = k
                /\ \A j \in DOMAIN pops :
                        ~WaveGet(wave', pops[j][1], pops[j][2])
                /\ lastPropagate' = "true" =>
                        Len(pops) >= Len(propagator.stack)
       /\ lastOp' # "clear" =>
            \A k \in DOMAIN wave.data :
                wave.data[k] = 0 => wave'.data[k] = 0]_vars

\* a propagate() that ran to the end and popped a pair it had pushed
\* itself: a pattern is gone from a cell no call removed it from
C25_Witness ==
    /\ lastOp = "propagate" /\ lastPropagate = "true"
    /\ propagator.stack = <<>>
    /\ \E i \in 0..(wave.size - 1) :
        i # lastCell /\ Remaining(wave, i) < wave.patternCount

\* the number of collapsed cells
CollapsedCount(w) ==
    Cardinality({i \in 0..(w.size - 1) : Remaining(w, i) = 1})

\* C26: every step() that returns 'continue' strictly increases the number
\* of collapsed cells, and a run without step cap ends with 'success' or
\* 'failure' after at most W*H + 1 step() calls.
C26_RunTerminates ==
    [][/\ (lastOp' = "step" /\ lastResult' = "continue") =>
            CollapsedCount(wave') > CollapsedCount(wave)
       /\ (lastOp' = "run" /\ lastPattern' < 0) =>
            /\ lastPropagate' \in {"success", "failure"}
            /\ lastCell' <= wave.size + 1]_vars

\* a run without cap that succeeded with the most step() calls allowed
C26_Witness ==
    /\ lastOp = "run" /\ lastPattern = -1 /\ lastPropagate = "success"
    /\ lastCell = wave.size + 1

\* C27: if run(maxSteps) returns true, for any maxSteps, then the grid is
\* fully collapsed (isComplete, no contradiction); run returns false
\* exactly when a step reported 'failure'.
C27_RunTrueMeansComplete ==
    lastOp = "run" =>
        /\ lastResult = "true" =>
                /\ GetState(wave).isComplete
                /\ ~GetState(wave).hasContradiction
        /\ lastResult = "false" <=> lastPropagate = "failure"

(***************************************************************************)
(* The work stack against its allocation                                   *)
(***************************************************************************)
\* the largest stackSize the loop of propagate(wave) sees: the stack only
\* grows while one popped pair is processed, so it is largest when a turn
\* of the loop begins or when the loop returns false
RECURSIVE StackPeak(_, _)
StackPeak(w, pr) ==
    IF Len(pr.stack) = 0 THEN 0
    ELSE LET top == pr.stack[Len(pr.stack)]
             popped == [pr EXCEPT !.stack = SubSeq(@, 1, Len(@) - 1)]
             r == PropagateDirs(w, popped, top[1], top[2], 0)
             rest == IF r.ok THEN StackPeak(r.wave, r.prop)
                     ELSE Len(r.prop.stack)
         IN  IF rest > Len(pr.stack) THEN rest ELSE Len(pr.stack)

\* the largest stackSize during a step(): the pushes of the patterns the
\* collapse removed, then propagate
StepStackPeak(m, w, pr, state) ==
    LET sel == SelectCell(m, w, state)
        col == WaveCollapse(w, sel.cell, sel.rng)
    IN  IF sel.cell < 0 \/ col.ret = -1 THEN Len(pr.stack)
        ELSE StackPeak(col.wave,
                       PushRemoved(pr, sel.cell, WavePossible(w, sel.cell),
                                   col.ret, 0))

\* the largest stackSize during a construction or a clear(): reset empties
\* the stack, then the ground constraint pushes its bans and propagates
ClearStackPeak(m, w, pr) ==
    IF m.kind = "tiled" \/ ~m.ground THEN 0
    ELSE LET banned == BanColumns([wave |-> WaveClear(w),
                                   prop |-> PropagatorReset(pr)],
                                  0, w.width, w.height)
         IN  StackPeak(banned.wave, banned.prop)

\* C28: in every reachable state of a model the stack holds at most W*H*T
\* (cell, pattern) pairs, and so does it at every moment of the step() and
\* of the clear() (the same work as the construction) that may be called
\* next; the queued pairs are pairwise distinct and removed from the wave
C28_StackWithinAllocation ==
    /\ Len(propagator.stack) <= wave.size * wave.patternCount
    /\ StepStackPeak(model, wave, propagator, rng)
           <= wave.size * wave.patternCount
    /\ ClearStackPeak(model, wave, propagator)
           <= wave.size * wave.patternCount
    /\ \A j, k \in 1..Len(propagator.stack) :
           /\ ~WaveGet(wave, propagator.stack[j][1], propagator.stack[j][2])
           /\ j # k => propagator.stack[j] # propagator.stack[k]

\* pairs stay queued after a failure, and the ground of the next clear()
\* queues some more
C28_Witness ==
    /\ lastOp = "step"
    /\ lastResult = "failure"
    /\ Len(propagator.stack) > 0
    /\ ClearStackPeak(model, wave, propagator) > 0


(***************************************************************************)
(* The counts of the directions that leave a non-periodic grid             *)
(***************************************************************************)
\* the indices idx of compatible[] whose cell has no neighbour in the
\* direction of idx
BoundaryEntries(pr) ==
    {idx \in 0..(pr.width * pr.height * pr.patternCount * 4 - 1) :
        ~HasNeighbor(pr.width, pr.height, pr.periodic,
                     idx \div (pr.patternCount * 4), idx % 4)}

\* the propagator with the value v in every entry of a missing neighbour
WithBoundaryCounts(pr, v) ==
    [pr EXCEPT !.compatible =
        [idx \in DOMAIN pr.compatible |->
            IF idx \in BoundaryEntries(pr) THEN v ELSE pr.compatible[idx]]]

\* C29: on a non-periodic grid the count of a cell and pattern in a
\* direction without neighbour is 0 after construction and after every
\* propagate() and reset(); propagate() neither decrements nor tests these
\* entries: run with a 1 in each of them (a value one decrement away from a
\* removal) it removes the same patterns, returns the same result, queues
\* the same pairs and leaves every 1 in place
C29_BoundaryCountsStayZero ==
    ~propagator.periodic =>
        /\ \A idx \in BoundaryEntries(propagator) :
               propagator.compatible[idx] = 0
        /\ LET plain == Propagate(wave, propagator)
               marked == Propagate(wave, WithBoundaryCounts(propagator, 1))
           IN  /\ marked.wave = plain.wave
               /\ marked.ok = plain.ok
               /\ marked.prop.stack = plain.prop.stack
               /\ marked.prop = WithBoundaryCounts(plain.prop, 1)

\* a propagate() on a non-periodic grid of more than one cell that has
\* removed a pattern from a neighbour
C29_Witness ==
    /\ ~propagator.periodic
    /\ wave.size > 1
    /\ lastOp = "propagate"
    /\ BoundaryEntries(propagator) # {}
    /\ \E idx \in DOMAIN propagator.compatible :
           propagator.compatible[idx]
               < InitCompatible(propagator, propagator.compatible)[idx]
    /\ \E c \in 0..(wave.size - 1) :
           /\ c # lastCell
           /\ wave.memo.patternCount[c] < wave.patternCount


(***************************************************************************)
(* The two builders of the compatibility relation alone: a sample image    *)
(* given to the OverlappingModel constructor (extractPatterns, then        *)
(* buildPropagator), or the content of a data.xml given to loadTileset.    *)
(* propagator holds the data built, <<>> before.                           *)
(***************************************************************************)
\* every 3x2 sample of two colours read with N = 2 and N = 3, and every
\* 2x2 sample of three colours read with N = 2 and N = 4 (larger than the
\* sample), each symmetry and both kinds of input
BuilderSamples ==
    { [kind |-> "sample", pixels |-> pixels, w |-> 3, h |-> 2, N |-> N,
       symmetry |-> symmetry, periodicInput |-> periodicInput] :
        pixels \in [1..6 -> {1, 2}], N \in {2, 3},
        symmetry \in {1, 2, 4, 8}, periodicInput \in BOOLEAN }
    \cup
    { [kind |-> "sample", pixels |-> pixels, w |-> 2, h |-> 2, N |-> N,
       symmetry |-> symmetry, periodicInput |-> periodicInput] :
        pixels \in [1..4 -> {1, 2, 3}], N \in {2, 4},
        symmetry \in {1, 2, 4, 8}, periodicInput \in BOOLEAN }

\* two tiles a and b of every symmetry class, with one or two neighbor
\* rules between their variants 0 and 1
BuilderTilesets ==
    LET rules == { [left |-> <<l, lv>>, right |-> <<r, rv>>] :
                     l \in {"a", "b"}, lv \in {0, 1},
                     r \in {"a", "b"}, rv \in {0, 1} }
    IN  { [kind |-> "tileset",
           tileset |-> [tiles |-> << [name |-> "a", symmetry |-> sa,
                                      weight |-> 1],
                                     [name |-> "b", symmetry |-> sb,
                                      weight |-> 1] >>,
                        neighbors |-> neighbors, subset |-> <<>>]] :
            sa \in {"X", "I", "L", "T", "\\", "F"}, sb \in {"X", "L"},
            neighbors \in {<<rule>> : rule \in rules}
                          \cup (rules \X rules) }

\* rows of pixels: d distinct colours in order, then the first one or two
\* of them again, for few colours and for about as many as a byte counts
BuilderPixels ==
    { [kind |-> "pixels",
       pixels |-> [i \in 1..(d + extra) |-> 1000 + ((i - 1) % d)]] :
        d \in (1..3) \cup ((MaxColours - 3)..MaxColours), extra \in 0..2 }

InitBuilders ==
    \E input \in BuilderSamples \cup BuilderTilesets \cup BuilderPixels :
        /\ model = [kind |-> "builders"]
        /\ wave = <<>>
        /\ propagator = <<>>
        /\ rng = 0
        /\ built = input
        /\ lastResult = "none"
        /\ lastCell = -1
        /\ lastPattern = -1
        /\ lastPropagate = "none"
        /\ lastOp = "new"
        /\ calls = 0

\* new OverlappingModel(sample, ...) on a grid of one cell: the model with
\* its colors and patterns, the wave with the weights, and the data its
\* buildPropagator() returned
BuildPropagatorCall ==
    /\ lastOp = "new"
    /\ built.kind = "sample"
    /\ \E c \in {OverlappingModelNew(built.pixels, built.w, built.h,
               [patternSize |-> built.N, symmetry |-> built.symmetry,
                periodicInput |-> built.periodicInput, ground |-> FALSE,
                heuristic |-> "entropy", seed |-> 0, width |-> 1,
                height |-> 1, periodic |-> FALSE])} :
           /\ model' = c.model
           /\ wave' = c.wave
           /\ propagator' = c.prop.propagatorData
    /\ lastOp' = "buildPropagator"
    /\ calls' = calls + 1
    /\ UNCHANGED <<rng, built, lastResult, lastCell, lastPattern,
                   lastPropagate>>

\* loadTileset(): its action table and the propagatorData it returns
LoadTilesetCall ==
    /\ lastOp = "new"
    /\ built.kind = "tileset"
    /\ propagator' = LoadTileset(built.tileset).propagatorData
    /\ model' = [kind |-> "tileset",
                 action |-> ActionTable(LoadedTiles(built.tileset))]
    /\ lastOp' = "loadTileset"
    /\ calls' = calls + 1
    /\ UNCHANGED <<wave, rng, built, lastResult, lastCell, lastPattern,
                   lastPropagate>>

\* extractColors(pixels, width, height): the sample and the colors returned
ExtractColorsCall ==
    /\ lastOp = "new"
    /\ built.kind = "pixels"
    /\ \E ec \in {ExtractColors(built.pixels)} :
           model' = [kind |-> "colors", sample |-> ec.sample,
                     colors |-> ec.colors]
    /\ lastOp' = "extractColors"
    /\ calls' = calls + 1
    /\ UNCHANGED <<wave, propagator, rng, built, lastResult, lastCell,
                   lastPattern, lastPropagate>>

NextBuilders == BuildPropagatorCall \/ LoadTilesetCall \/ ExtractColorsCall

SpecBuilders == InitBuilders /\ [][NextBuilders]_vars

\* is t2 in data[t1][d]
Compatible(data, t1, d, t2) ==
    \E k \in 1..Len(data[t1][d]) : data[t1][d][k] = t2

\* C30: in the data either builder returns, t2 is in compat[t1][d] if and
\* only if t1 is in compat[t2][opposite(d)], for all patterns t1, t2 and
\* all four directions d
C30_CompatSymmetricBothBuilders ==
    lastOp \in {"buildPropagator", "loadTileset"} =>
        \A t1 \in DOMAIN propagator, t2 \in DOMAIN propagator,
           d \in Directions :
            Compatible(propagator, t1, d, t2)
                <=> Compatible(propagator, t2, OPPOSITE[d + 1], t1)

\* buildPropagator() has returned a relation that is not symmetric within
\* one direction: t2 may lie in direction d from t1 but t1 not in direction
\* d from t2
C30_Witness ==
    /\ lastOp = "buildPropagator"
    /\ \E t1 \in DOMAIN propagator, t2 \in DOMAIN propagator,
          d \in Directions :
           /\ Compatible(propagator, t1, d, t2)
           /\ ~Compatible(propagator, t2, d, t1)


(***************************************************************************)
(* Pattern extraction: deduplication and weights                           *)
(***************************************************************************)
\* the (x, y, k) the loops of extractPatterns visit whose patch ps[k] is
\* pixelwise equal to p
OriginsOf(p) ==
    LET sample == ExtractColors(built.pixels).sample
        xmax == IF built.periodicInput THEN built.w ELSE built.w - built.N + 1
        ymax == IF built.periodicInput THEN built.h ELSE built.h - built.N + 1
    IN  {o \in (0..(xmax - 1)) \X (0..(ymax - 1)) \X (0..(built.symmetry - 1)) :
            At(Variants(sample, built.w, built.h, built.N, o[1], o[2]), o[3])
                = p}

\* no two registered patterns are pixelwise equal, and the weight of each
\* is the number of visited (origin, variant) pairs whose patch equals it
ExactlyDeduplicated ==
    /\ \A i, j \in DOMAIN model.patterns :
           i # j => model.patterns[i] # model.patterns[j]
    /\ \A i \in DOMAIN model.patterns :
           wave.weights[i] = Cardinality(OriginsOf(model.patterns[i]))

C32_QuantizationLossless ==
    lastOp = "extractColors" =>
        /\ Len(model.sample) = Len(built.pixels)
        /\ \A i \in DOMAIN built.pixels :
               /\ model.sample[i] < Len(model.colors)
               /\ At(model.colors, model.sample[i]) = built.pixels[i]
        /\ \E first \in {[j \in DOMAIN model.colors |->
                             CHOOSE i \in DOMAIN built.pixels :
                                 /\ built.pixels[i] = model.colors[j]
                                 /\ \A h \in 1..(i - 1) :
                                        built.pixels[h] # model.colors[j]]} :
               \A j \in 1..(Len(model.colors) - 1) :
                   first[j] < first[j + 1]


(***************************************************************************)
(* The action table of the tileset loader                                  *)
(***************************************************************************)
\* C33: for every tile of every symmetry class and every variant of it,
\* the 8 entries of its action map lie in [base, base + cardinality) of
\* the tile; the rotation (entry 1) applied four times and the reflection
\* (entry 4) applied twice lead back to the variant, and so do a and b of
\* getSymmetry on the variant indices
C33_ActionTableClosed ==
    lastOp = "loadTileset" =>
        \A j \in DOMAIN built.tileset.tiles :
            LET tiles == built.tileset.tiles
                sym == GetSymmetry(tiles[j].symmetry)
                base == TileBase(tiles, j)
                Rot(n) == At(At(model.action, n), 1)
                Mir(n) == At(At(model.action, n), 4)
            IN  \A t \in 0..(sym.cardinality - 1) :
                    /\ Len(At(model.action, base + t)) = 8
                    /\ \A s \in 0..7 :
                           /\ At(At(model.action, base + t), s) >= base
                           /\ At(At(model.action, base + t), s)
                                  < base + sym.cardinality
                    /\ At(At(model.action, base + t), 0) = base + t
                    /\ Rot(Rot(Rot(Rot(base + t)))) = base + t
                    /\ Mir(Mir(base + t)) = base + t
                    /\ sym.a[sym.a[sym.a[sym.a[t]]]] = t
                    /\ sym.b[sym.b[t]] = t

\* a tileset whose first tile has the 8 variants of class F and whose
\* second tile, of class L, starts at base 8
C33_Witness ==
    /\ lastOp = "loadTileset"
    /\ built.tileset.tiles[1].symmetry = "F"
    /\ built.tileset.tiles[2].symmetry = "L"
    /\ Len(model.action) = 12
    /\ At(At(model.action, 9), 1) = 10


(***************************************************************************)
(* The wave between two clear() calls                                      *)
(***************************************************************************)
\* C34: a step() turns no removed (cell, pattern) bit back on and leaves
\* every bit outside the grid's array alone; remaining[i] does not grow
\* for any cell; a cell with one pattern left keeps that pattern, unless
\* the step empties it (a contradiction)
C34_WaveOnlyShrinks ==
    [][lastOp' # "clear" =>
          /\ DOMAIN wave'.data = DOMAIN wave.data
          /\ \A k \in DOMAIN wave.data : wave'.data[k] <= wave.data[k]
          /\ \A i \in 0..(wave.size - 1) :
                 /\ wave'.memo.patternCount[i] <= wave.memo.patternCount[i]
                 /\ wave'.memo.patternCount[i]
                        = Cardinality({t \in 0..(wave.patternCount - 1) :
                                          WaveGet(wave', i, t)})
                 /\ (wave.memo.patternCount[i] = 1
                         /\ wave'.memo.patternCount[i] = 1) =>
                        GetObserved(wave', i) = GetObserved(wave, i)]_vars

\* two steps have each collapsed a cell, and both cells are still
\* collapsed after the second
C34_Witness ==
    /\ lastOp = "step"
    /\ lastResult = "continue"
    /\ calls >= 2
    /\ wave.patternCount > 1
    /\ wave.memo.patternCount[lastCell] = 1
    /\ \E i \in 0..(wave.size - 1) :
           /\ i # lastCell
           /\ wave.memo.patternCount[i] = 1
    /\ \E i \in 0..(wave.size - 1) : wave.memo.patternCount[i] > 1


(***************************************************************************)
(* The getters between two step() calls                                    *)
(***************************************************************************)
\* the (cell, pattern) choice and the result of the step() called on the
\* model m with the wave w, the propagator pr and the generator at state
ChoiceOf(m, w, pr, state) ==
    CHOOSE choice \in {<<r.cell, r.pattern, r.result>> :
                          r \in {ModelStep(m, w, pr, state)}} : TRUE

\* the choice of the step() that would be called next
NextChoice == ChoiceOf(model, wave, propagator, rng)

\* C35: getState(), getEntropyData() and render() leave the wave (mask and
\* memoized scalars), the propagator (counts and stack), the model
\* (scanline cursor) and the generator as they were, so the step() called
\* after them makes the choice it would have made before them; and they
\* return what the wave holds
C35_GettersReadOnly ==
    [][lastOp' \in {"getState", "getEntropyData", "render"} =>
          /\ UNCHANGED <<model, wave, propagator, rng>>
          /\ \E m \in {model'}, w \in {wave'}, pr \in {propagator'},
                state \in {rng'} :
                 ChoiceOf(m, w, pr, state) = NextChoice
          /\ lastOp' = "getState" =>
                 lastResult'.collapsedCount = CollapsedCount(wave)
          /\ lastOp' = "getEntropyData" =>
                 \A i \in 0..(wave.size - 1) :
                     lastResult'[i].collapsed
                         = (Cardinality({t \in 0..(wave.patternCount - 1) :
                                            WaveGet(wave, i, t)}) = 1)]_vars

\* render() has been called between two steps, on a wave with collapsed
\* and open cells, and the step() to come would collapse one more cell
C35_Witness ==
    /\ lastOp = "render"
    /\ calls >= 2
    /\ \E i, j \in 0..(wave.size - 1) :
           /\ wave.memo.patternCount[i] = 1
           /\ wave.memo.patternCount[j] > 1
           /\ lastResult[j].a = 255
    /\ NextChoice[3] = "continue"


\* C36: getLastCollapsedCell() leaves the wave, the counts, the cursor and
\* the generator as they were, and the step() called after it makes the
\* (cell, pattern) choice it would have made without the call
C36_HighlightKeepsRun ==
    [][lastOp' = "getLastCollapsedCell" =>
          /\ UNCHANGED <<model, wave, propagator, rng>>
          /\ \E m \in {model'}, w \in {wave'}, pr \in {propagator'},
                state \in {rng'} :
                 ChoiceOf(m, w, pr, state) = NextChoice]_vars


(***************************************************************************)
(* The run after clear()                                                   *)
(***************************************************************************)
\* the choices and results of the first two step() calls on the model m
\* with the wave w, the propagator pr and the generator at state
FirstChoices(m, w, pr, state) ==
    CHOOSE choices \in
        {<<<<r.cell, r.pattern, r.result>>,
           ChoiceOf(r.model, r.wave, r.prop, r.rng)>> :
            r \in {ModelStep(m, w, pr, state)}} : TRUE

\* C37: the step() calls after a clear() make the (cell, pattern) choices
\* and return the results of the step() calls made right after
\* construction
C37_ClearReproducesFirstRun ==
    lastOp = "clear" =>
        FirstChoices(model, wave, propagator, rng)
            = FirstChoices([model EXCEPT
                                !.scanlineCursor = built.scanlineCursor],
                           built.wave, built.prop, built.rng)

(***************************************************************************)
(* The playback host: the App object that owns a model and drives it from  *)
(* the Run, Pause and Step buttons with the Animate box checked.  In this  *)
(* specification built holds the App's playback fields (isPlaying,         *)
(* stopRequested, animationId with 0 for null), the disabled attributes of *)
(* the Run and Pause buttons, and what the browser holds for the App: the  *)
(* number of setTimeout callbacks of runLoop() not yet run (timers), the   *)
(* ids of the animation frames requested and neither run nor cancelled     *)
(* (frames) and the id the next requestAnimationFrame returns (nextFrame). *)
(* lastClick is not a field of App: it is the latest of the Run and Pause  *)
(* clicks.  model, wave, propagator and rng are this.model.  A Run click   *)
(* on a finished model first awaits loadCurrentSample(), which fetches and *)
(* decodes the sample; Run is clicked here on unfinished models only.      *)
(***************************************************************************)
InitHost ==
    /\ \E tileset \in {ts \in Tilesets : ts.subset = <<>>},
          W \in 1..MaxW, H \in 1..MaxH, heuristic \in Heuristics,
          seed \in 0..MaxSeed :
        \E c \in {TiledFromData(LoadTileset(tileset),
                     [width |-> W, height |-> H, periodic |-> FALSE,
                      heuristic |-> heuristic, seed |-> seed])} :
            /\ model = c.model
            /\ wave = c.wave
            /\ propagator = c.prop
            /\ rng = c.rng
    /\ \E pauseDisabled \in BOOLEAN :
        built = [isPlaying |-> FALSE, stopRequested |-> FALSE,
                 animationId |-> 0, playDisabled |-> FALSE,
                 pauseDisabled |-> pauseDisabled, timers |-> 0,
                 frames |-> {}, nextFrame |-> 1, lastClick |-> "none"]
    /\ lastResult = "none"
    /\ lastCell = -1
    /\ lastPattern = -1
    /\ lastPropagate = "none"
    /\ lastOp = "new"
    /\ calls = 0

\* a click on Run: play() and the runLoop() it calls, which steps the model
\* and either sets the timer of the next turn or calls pause()
PlayClick ==
    /\ ~built.playDisabled
    /\ ~built.isPlaying
    /\ \E state \in {GetState(wave)} :
        ~state.isComplete /\ ~state.hasContradiction
    /\ \E r \in {ModelStep(model, wave, propagator, rng)} :
        /\ model' = r.model
        /\ wave' = r.wave
        /\ propagator' = r.prop
        /\ rng' = r.rng
        /\ lastResult' = r.result
        /\ lastCell' = r.cell
        /\ lastPattern' = r.pattern
        /\ lastPropagate' = r.propagated
        /\ built' = IF r.result = "continue"
                    THEN [built EXCEPT !.stopRequested = FALSE,
                                       !.playDisabled = TRUE,
                                       !.pauseDisabled = FALSE,
                                       !.isPlaying = TRUE,
                                       !.timers = @ + 1,
                                       !.lastClick = "play"]
                    ELSE [built EXCEPT !.stopRequested = TRUE,
                                       !.isPlaying = FALSE,
                                       !.pauseDisabled = TRUE,
                                       !.playDisabled = FALSE,
                                       !.frames = @ \ {built.animationId},
                                       !.animationId = 0,
                                       !.lastClick = "play"]
    /\ lastOp' = "play"
    /\ UNCHANGED calls

\* a click on Pause: pause()
PauseClick ==
    /\ ~built.pauseDisabled
    /\ built' = [built EXCEPT !.stopRequested = TRUE,
                              !.isPlaying = FALSE,
                              !.pauseDisabled = TRUE,
                              !.playDisabled = FALSE,
                              !.frames = @ \ {built.animationId},
                              !.animationId = 0,
                              !.lastClick = "pause"]
    /\ lastOp' = "pause"
    /\ UNCHANGED <<model, wave, propagator, rng, lastResult, lastCell,
                   lastPattern, lastPropagate, calls>>

\* a click on Step: step()
StepClick ==
    /\ \E r \in {ModelStep(model, wave, propagator, rng)} :
        /\ model' = r.model
        /\ wave' = r.wave
        /\ propagator' = r.prop
        /\ rng' = r.rng
        /\ lastResult' = r.result
        /\ lastCell' = r.cell
        /\ lastPattern' = r.pattern
        /\ lastPropagate' = r.propagated
    /\ lastOp' = "step"
    /\ UNCHANGED <<built, calls>>

\* the browser runs a callback of runLoop(): the setTimeout callback, which
\* requests an animation frame and stores its id, or the animation frame
\* callback, which is runLoop() again
ScheduledCallback ==
    \/ /\ built.timers > 0
       /\ built' = [built EXCEPT !.timers = @ - 1,
                                 !.animationId = built.nextFrame,
                                 !.frames = @ \cup {built.nextFrame},
                                 !.nextFrame = @ + 1]
       /\ lastOp' = "timeout"
       /\ UNCHANGED <<model, wave, propagator, rng, lastResult, lastCell,
                      lastPattern, lastPropagate, calls>>
    \/ \E id \in built.frames :
        /\ ~built.isPlaying
        /\ built' = [built EXCEPT !.frames = @ \ {id}]
        /\ lastOp' = "frame"
        /\ UNCHANGED <<model, wave, propagator, rng, lastResult, lastCell,
                       lastPattern, lastPropagate, calls>>
    \/ \E id \in built.frames :
        /\ built.isPlaying
        /\ \E r \in {ModelStep(model, wave, propagator, rng)} :
            /\ model' = r.model
            /\ wave' = r.wave
            /\ propagator' = r.prop
            /\ rng' = r.rng
            /\ lastResult' = r.result
            /\ lastCell' = r.cell
            /\ lastPattern' = r.pattern
            /\ lastPropagate' = r.propagated
            /\ built' = IF r.result = "continue"
                        THEN [built EXCEPT !.frames = @ \ {id},
                                           !.timers = @ + 1]
                        ELSE [built EXCEPT
                                 !.stopRequested = TRUE,
                                 !.isPlaying = FALSE,
                                 !.pauseDisabled = TRUE,
                                 !.playDisabled = FALSE,
                                 !.frames = (@ \ {id}) \ {built.animationId},
                                 !.animationId = 0]
        /\ lastOp' = "runLoop"
        /\ UNCHANGED calls

NextHost == PlayClick \/ PauseClick \/ StepClick \/ ScheduledCallback

SpecHost == InitHost /\ [][NextHost]_vars

(***************************************************************************)
(* Incremental against batch propagation                                   *)
(***************************************************************************)
\* what a caller is left with that calls propagateStep(wave) again and again
\* until it reports done or contradiction
RECURSIVE StepwisePropagate(_, _)
StepwisePropagate(w, pr) ==
    CHOOSE out \in {IF r.done \/ r.contradiction THEN r
                    ELSE StepwisePropagate(r.wave, r.prop) :
                    r \in {PropagateStep(w, pr)}} : TRUE

\* the number of propagateStep(wave) calls such a caller makes
RECURSIVE StepwiseCalls(_, _)
StepwiseCalls(w, pr) ==
    CHOOSE n \in {IF r.done \/ r.contradiction THEN 1
                  ELSE 1 + StepwiseCalls(r.wave, r.prop) :
                  r \in {PropagateStep(w, pr)}} : TRUE

\* C38: from any wave, counts and stack, propagateStep(wave) called until it
\* reports done or contradiction leaves the same wave mask and the same
\* compatibility counts as one propagate(wave) call, and reports
\* contradiction exactly when propagate(wave) returns false
C38_StepwiseRefinesBatch ==
    \E batch \in {Propagate(wave, propagator)},
       stepwise \in {StepwisePropagate(wave, propagator)} :
        /\ stepwise.wave.data = batch.wave.data
        /\ stepwise.prop.compatible = batch.prop.compatible
        /\ stepwise.contradiction = ~batch.ok
        /\ stepwise.done = (batch.ok /\ ~stepwise.contradiction)

\* a propagateStep(wave) call has left pairs on the stack, and finishing the
\* propagation from there takes several calls that remove further patterns
C38_Witness ==
    /\ lastOp = "propagateStep"
    /\ lastPropagate = "more"
    /\ StepwiseCalls(wave, propagator) >= 2
    /\ StepwisePropagate(wave, propagator).wave.data # wave.data

(***************************************************************************)
(* The playback host                                                       *)
(***************************************************************************)
\* the scheduled continuations of runLoop() the browser holds
AliveContinuations == built.timers + Cardinality(built.frames)

\* C39: in the playback host at most one animation loop drives the model:
\* whatever the order of Run, Pause and Step clicks and of timer and frame
\* callbacks, there are never two scheduled runLoop continuations at once,
\* and between a Pause click and the next Run click no callback of the loop
\* calls model.step()
C39_SingleAnimationLoop ==
    /\ [](AliveContinuations <= 1)
    /\ [][built.lastClick = "pause" => lastOp' # "runLoop"]_vars

=============================================================================
